---- MODULE Spec2Model ----
(***************************************************************************)
(* A model of bigorm (src/bigorm): the BigQueryQuery facade and its        *)
(* attribute dispatch, the lazy result materializer (instances) with the   *)
(* single-result helpers built on it, ingestion (create, create_load_job,  *)
(* _create_helper, the parse adapters), the thread-local DatabaseContext,  *)
(* BigQueryColumn, the GeoJSON export, the geography values and            *)
(* serialize_as_dict.                                                      *)
(*                                                                         *)
(* Each subsystem has its own specification (SpecFacade, SpecQuery,        *)
(* SpecCreate, SpecContext, SpecColumn, SpecExport, SpecParse, SpecGeo,    *)
(* SpecSerialize); the variables of the other subsystems stay at their     *)
(* idle values.                                                            *)
(***************************************************************************)
EXTENDS Integers, Sequences, FiniteSets, TLC

VARIABLES
    \* ---- facade (BigQueryQuery.__getattr__) ----
    facade,      \* the object the caller holds: [isFacade, query]
    chain,       \* the builder calls the caller has made so far, in order
    attr,        \* outcome of the caller's last attribute access
    touched,     \* names looked up on the wrapped query during that access
    \* ---- query execution (all / first / one_or_none / one / instances) ----
    matching,    \* raw rows the wrapped query matches, in warehouse order
    yieldPer,    \* query._yield_per: 0 is None (no page-size hint)
    op,          \* the facade operation in progress
    limitUsed,   \* the row limit of the executed statement (0: none)
    cursorRows,  \* rows the cursor still holds
    cursorAll,   \* rows the cursor returned for the executed statement
    cursorClosed,\* cursor.close() has been called
    fetchLog,    \* the fetch calls made on the cursor, in order
    genState,    \* state of the generator returned by instances()
    page,        \* processed rows of the current page not yet yielded
    yielded,     \* results the generator has yielded so far
    result,      \* what the facade operation returned or raised
    \* ---- streaming ingestion (create / _create_streaming) ----
    instances,   \* the list given to create
    batchSize,   \* the batch_size given to create
    createPc,    \* position inside create
    sliceStart,  \* the loop variable i of create
    insertCalls, \* rows of every client.insert_rows call, in order
    schemaLookups, \* what each client.get_table call returned, in order
    createErr,   \* the exception create raised, if any
    entry,       \* the ingestion entrypoint that was called
    helper,      \* the arguments _create_helper was called with, if it was
    insertResults, \* the error list each insert_rows call returned, in order
    createErrArg,  \* what the raised exception carries
    loadJobs,    \* payload of every load job submitted, in order
    jobOutcome,  \* how the submitted load job ended
    tableExists, \* the warehouse table exists
    tableSchema, \* the fields the warehouse table has now
    tableRows,   \* rows of the warehouse table, each with the path it came by
    parsed,      \* the instances a parse adapter returned
    \* ---- DatabaseContext (thread-local sessions) ----
    sessions,    \* per thread: global_database_context.sessions
    engines,     \* per thread: keys of global_database_context.engines
    made,        \* every session created: owner, engine key, calls made on it
    depth,       \* per thread: with-blocks entered and not yet exited
    lastGet,     \* per thread: outcome of its last get_session / get_engine
    actor,       \* the thread that took the last context step
    \* ---- BigQueryColumn ----
    colArgs,     \* keyword arguments given to BigQueryColumn
    colResult,   \* the column constructed, or the exception raised
    \* ---- GeoJSON export ----
    exportArgs,  \* arguments given to _dicts_to_geojson
    exportResult,\* the feature collection, or the exception raised
    \* ---- GeoJSON import ----
    parseArgs,   \* arguments given to parse_from_geojson
    parseResult, \* the instances constructed, or the exception raised
    \* ---- geography values ----
    geoArgs,     \* the GeoJSON polygon given to convert_geovalue_to_geojson_str
    geoResult,   \* the wire value produced, or the exception raised
    \* ---- serialization ----
    serArgs,     \* the entity given to serialize_as_dict
    serResult    \* the row dictionary produced, or the exception raised

facadeVars == <<facade, chain, attr, touched>>

queryVars == <<matching, yieldPer, op, limitUsed, cursorRows, cursorAll,
               cursorClosed, fetchLog, genState, page, yielded, result>>

createVars == <<instances, batchSize, createPc, sliceStart, insertCalls,
                schemaLookups, createErr, entry, helper, insertResults,
                createErrArg, loadJobs, jobOutcome, tableExists, tableSchema,
                tableRows, parsed>>

contextVars == <<sessions, engines, made, depth, lastGet, actor>>

columnVars == <<colArgs, colResult>>

exportVars == <<exportArgs, exportResult>>

parseVars == <<parseArgs, parseResult>>

geoVars == <<geoArgs, geoResult>>

serVars == <<serArgs, serResult>>

\* The subsystems that take no part in the facade, query and ingestion steps.
pureVars == <<columnVars, exportVars, parseVars, geoVars, serVars>>

vars == <<facadeVars, queryVars, createVars, contextVars, pureVars>>

\* Python's None.
None == "None"

(***************************************************************************)
(* Helpers on sequences.                                                   *)
(***************************************************************************)
Min(a, b) == IF a < b THEN a ELSE b

\* seq[:n]
Take(seq, n) == SubSeq(seq, 1, Min(n, Len(seq)))

\* seq[n:]
Drop(seq, n) == SubSeq(seq, Min(n, Len(seq)) + 1, Len(seq))

\* All sequences over S of length at most n.
SeqsUpTo(S, n) == UNION {[1..k -> S] : k \in 0..n}

(***************************************************************************)
(* The facade: BigQueryQuery.__getattr__ and sqlalchemy_query_fn_wrapper.  *)
(***************************************************************************)

\* Longest chain of builder calls explored.
MaxChain == 2

SAFE_SQLALCHEMY_QUERIES_EXCUTIONS ==
    {"as_scalar", "column_descriptions", "count", "delete",
     "cte", "exists", "get_execution_options", "label",
     "selectable", "statement", "subquery"}

NOT_SUPPORTED ==
    {"from_statement", "get", "merge_result",
     "populate_existing", "values", "value",
     "with_parent", "with_session"}

\* Attributes found by normal lookup on a BigQueryQuery: __getattr__ is
\* never called for them.
FacadeMethods ==
    {"sqlalchemy_query", "query_raw", "all", "all_as_list", "all_as_pandas",
     "all_as_dicts", "all_as_geojson", "first", "one_or_none", "one",
     "scalar", "update", "instances"}

\* Builder methods of the wrapped query that return a new query.
ChainableNames == {"filter", "order_by", "limit", "execution_options"}

\* A name the wrapped query does not define.
MissingNames == {"no_such_attribute"}

\* The attributes the wrapped query object has.
QueryAttrs ==
    SAFE_SQLALCHEMY_QUERIES_EXCUTIONS \cup NOT_SUPPORTED \cup ChainableNames

AttrNames == FacadeMethods \cup QueryAttrs \cup MissingNames

NoValue == [owner |-> <<>>, name |-> None]

\* getattr(self.sqlalchemy_query, name): the wrapped query's own attribute.
QueryGetattr(q, name) == [owner |-> q, name |-> name]

\* Calling the wrapped query's builder method: the query it produces.
QueryApply(fn) == Append(fn.owner, fn.name)

\* BigQueryQuery(sqlalchemy_query)
BigQueryQuery(q) == [isFacade |-> TRUE, query |-> q]

\* A wrapper that hands back the builder's result as it is.
WrappedCallUnwrapped(fn) == [isFacade |-> FALSE, query |-> QueryApply(fn)]

\* wrapped(*args, **kwargs) of sqlalchemy_query_fn_wrapper(f)
WrappedCall(fn) == BigQueryQuery(QueryApply(fn))

\* __getattr__ with the safe test dropped: every supported name is wrapped.
GetattrWrapAll(q, name) ==
    IF name \notin QueryAttrs
    THEN [name |-> name, kind |-> "AttributeError", value |-> NoValue,
          touched |-> <<name>>]
    ELSE IF name \in NOT_SUPPORTED
    THEN [name |-> name, kind |-> "BigQueryOrmError", value |-> NoValue,
          touched |-> <<name>>]
    ELSE [name |-> name, kind |-> "wrapper", value |-> QueryGetattr(q, name),
          touched |-> <<name>>]

\* BigQueryQuery.__getattr__(name).  super().__getattr__ always raises
\* AttributeError (object defines no __getattr__), so the except branch runs:
\* the attribute is first looked up on the wrapped query, then classified.
Getattr(q, name) ==
    IF name \notin QueryAttrs
    THEN [name |-> name, kind |-> "AttributeError", value |-> NoValue,
          touched |-> <<name>>]
    ELSE IF name \in SAFE_SQLALCHEMY_QUERIES_EXCUTIONS
    THEN [name |-> name, kind |-> "native", value |-> QueryGetattr(q, name),
          touched |-> <<name>>]
    ELSE IF name \in NOT_SUPPORTED
    THEN [name |-> name, kind |-> "BigQueryOrmError", value |-> NoValue,
          touched |-> <<name>>]
    ELSE [name |-> name, kind |-> "wrapper", value |-> QueryGetattr(q, name),
          touched |-> <<name>>]

NoAttr == [name |-> None, kind |-> "none", value |-> NoValue]

FacadeInit ==
    /\ facade = BigQueryQuery(<<>>)
    /\ chain = <<>>
    /\ attr = NoAttr
    /\ touched = <<>>

\* The caller evaluates facade.<name>.
GetAttr(name) ==
    /\ facade.isFacade
    /\ IF name \in FacadeMethods
       THEN /\ attr' = [name |-> name, kind |-> "own", value |-> NoValue]
            /\ touched' = <<>>
       ELSE LET r == Getattr(facade.query, name)
            IN /\ attr' = [name |-> r.name, kind |-> r.kind, value |-> r.value]
               /\ touched' = r.touched
    /\ UNCHANGED <<facade, chain>>
    /\ UNCHANGED <<queryVars, createVars, contextVars, pureVars>>

\* The caller calls the callable the last attribute access resolved to.
CallWrapped ==
    /\ attr.kind = "wrapper"
    /\ Len(chain) < MaxChain
    /\ facade' = WrappedCall(attr.value)
    /\ chain' = Append(chain, attr.name)
    /\ attr' = NoAttr
    /\ touched' = <<>>
    /\ UNCHANGED <<queryVars, createVars, contextVars, pureVars>>

(***************************************************************************)
(* Query execution: query_raw, instances (the result materializer), all,   *)
(* first, one_or_none, one.                                                *)
(***************************************************************************)

\* Most rows a query matches.
MaxRows == 3

\* Largest page-size hint (yield_per) explored.
MaxYieldPer == 2

\* Raw cursor rows: <<primary key, column1>>.  Two of them share a key.
RawRows == {<<1, "a">>, <<1, "b">>, <<2, "a">>}

\* How a step of the materializer can fail: building the row processors,
\* a cursor fetch, or processing the fetched rows may raise.
FailModes == {"none", "setup", "fetch", "process"}

NoRow == [id |-> 0, column1 |-> None]

\* proc(row): the row processor of the single selected entity.
Proc(row) == [id |-> row[1], column1 |-> row[2]]

\* The rows of fetch whose primary key no earlier row of fetch has.
RECURSIVE UniqueByKey(_, _)
UniqueByKey(fetch, seen) ==
    IF fetch = <<>> THEN <<>>
    ELSE IF Head(fetch)[1] \in seen
         THEN UniqueByKey(Tail(fetch), seen)
         ELSE <<Head(fetch)>> \o UniqueByKey(Tail(fetch), seen \cup {Head(fetch)[1]})

\* Row processing that keeps one row per primary key, as Query.all() of the
\* generic builder does.
ProcessRowsUnique(fetch) ==
    LET u == UniqueByKey(fetch, {}) IN [i \in 1..Len(u) |-> Proc(u[i])]

\* rows = [proc(row) for row in fetch]
ProcessRows(fetch) == [i \in 1..Len(fetch) |-> Proc(fetch[i])]

\* The rows a statement limited to n rows returns (n = 0: no limit).
LimitRows(rows, n) == IF n = 0 THEN rows ELSE Take(rows, n)

\* The generator object instances(cursor) returns, before its body has run.
\* query_raw executes the statement first: the cursor already holds the rows.
NewGenerator(rows) ==
    [state |-> "created", rows |-> rows, closed |-> FALSE, log |-> <<>>,
     page |-> <<>>, out |-> <<>>]

\* finally: cursor.close(), leaving the generator in state st.
Finally(g, st) == [g EXCEPT !.state = st, !.closed = TRUE, !.page = <<>>]

\* A pass of the loop that ignores the page-size hint and fetches all the
\* rows that are left.
FetchPageWhole(g, mode) ==
    LET call == [call |-> "fetchall", size |-> 0, closed |-> g.closed]
        g1 == [g EXCEPT !.log = Append(g.log, call)]
        fetch == g.rows
        g2 == [g1 EXCEPT !.rows = <<>>]
        rows == ProcessRows(fetch)
    IN IF mode = "fetch" THEN Finally(g1, "raised")
       ELSE IF mode = "process" /\ fetch # <<>> THEN Finally(g2, "raised")
       ELSE IF rows = <<>> THEN Finally(g2, "exhausted")
       ELSE [g2 EXCEPT !.state = "suspended",
                       !.out = Append(g.out, Head(rows)),
                       !.page = Tail(rows)]

\* One pass of the while loop of instances, from the fetch to the first
\* yield of the page or to the exit of the loop.
FetchPage(g, mode) ==
    LET call == IF yieldPer > 0
                THEN [call |-> "fetchmany", size |-> yieldPer, closed |-> g.closed]
                ELSE [call |-> "fetchall", size |-> 0, closed |-> g.closed]
        g1 == [g EXCEPT !.log = Append(g.log, call)]
        fetch == IF yieldPer > 0 THEN Take(g.rows, yieldPer) ELSE g.rows
        g2 == [g1 EXCEPT !.rows = Drop(g.rows, Len(fetch))]
        rows == ProcessRows(fetch)
    IN IF mode = "fetch" THEN Finally(g1, "raised")
       ELSE IF yieldPer > 0 /\ fetch = <<>> THEN Finally(g2, "exhausted")
       ELSE IF mode = "process" /\ fetch # <<>> THEN Finally(g2, "raised")
       ELSE IF rows = <<>> THEN Finally(g2, "exhausted")
       ELSE [g2 EXCEPT !.state = "suspended",
                       !.out = Append(g.out, Head(rows)),
                       !.page = Tail(rows)]

\* next(generator): the body of instances runs to its next yield, to its
\* end, or to an exception.
GenStep(g, mode) ==
    IF g.state = "created"
    THEN IF mode = "setup" THEN Finally(g, "raised") ELSE FetchPage(g, mode)
    ELSE IF g.state = "suspended"
    THEN IF g.page # <<>>
         THEN [g EXCEPT !.out = Append(g.out, Head(g.page)), !.page = Tail(g.page)]
         ELSE IF yieldPer = 0 THEN Finally(g, "exhausted")
         ELSE FetchPage(g, mode)
    ELSE g

\* The generator is closed or collected.  Suspended at a yield, GeneratorExit
\* is raised there and the finally clause runs; if its body never started,
\* nothing of it runs.
GenClose(g) ==
    IF g.state = "suspended" THEN Finally(g, "closed")
    ELSE IF g.state = "created" THEN [g EXCEPT !.state = "closed_unstarted"]
    ELSE g

\* list(generator): steps until the generator ends; the fetch numbered `at`
\* fails in the way `mode` says.
RECURSIVE Exhaust(_, _, _)
Exhaust(g, mode, at) ==
    IF g.state \notin {"created", "suspended"} THEN g
    ELSE LET m == IF mode = "setup"
                  THEN (IF g.state = "created" THEN "setup" ELSE "none")
                  ELSE IF Len(g.log) + 1 = at THEN mode ELSE "none"
         IN Exhaust(GenStep(g, m), mode, at)

Pending == [kind |-> "pending", value |-> NoRow, error |-> None]
ReturnGenerator == [kind |-> "generator", value |-> NoRow, error |-> None]
ReturnValue(v) == [kind |-> "value", value |-> v, error |-> None]
ReturnNone == [kind |-> "none", value |-> NoRow, error |-> None]
Raise(e) == [kind |-> "raise", value |-> NoRow, error |-> e]

\* query = self.limit(1)
FirstLimit == 1

\* query = self.limit(2)
OneOrNoneLimit == 2

\* first() done the way one() is: no row is an error.
FirstResultStrict(g) ==
    IF g.state = "raised" THEN Raise("Exception")
    ELSE IF g.state = "suspended" THEN ReturnValue(g.out[Len(g.out)])
    ELSE Raise("NoResultFound")

\* first(): for result in query.all(): return result; return None.
\* g is the generator after the first next().
FirstResult(g) ==
    IF g.state = "raised" THEN Raise("Exception")
    ELSE IF g.state = "suspended" THEN ReturnValue(g.out[Len(g.out)])
    ELSE ReturnNone

\* one_or_none() that tolerates two rows.
OneOrNoneResultLax(results) ==
    IF Len(results) = 0 THEN ReturnNone
    ELSE IF Len(results) > 2 THEN Raise("MultipleResultsFound")
    ELSE ReturnValue(results[1])

\* one_or_none(), after results = list(query.all()).
OneOrNoneResult(results) ==
    IF Len(results) = 0 THEN ReturnNone
    ELSE IF Len(results) > 1 THEN Raise("MultipleResultsFound")
    ELSE ReturnValue(results[1])

\* one() that hands None back instead of raising.
OneResultLax(r) == r

\* one(), after one = self.one_or_none().
OneResult(r) == IF r.kind = "none" THEN Raise("NoResultFound") ELSE r

QueryIdle ==
    /\ op = "idle"
    /\ limitUsed = 0
    /\ cursorRows = <<>>
    /\ cursorAll = <<>>
    /\ cursorClosed = FALSE
    /\ fetchLog = <<>>
    /\ genState = "none"
    /\ page = <<>>
    /\ yielded = <<>>
    /\ result = Pending

QueryInit ==
    /\ matching \in SeqsUpTo(RawRows, MaxRows)
    /\ yieldPer \in 0..MaxYieldPer
    /\ QueryIdle

CurGen ==
    [state |-> genState, rows |-> cursorRows, closed |-> cursorClosed,
     log |-> fetchLog, page |-> page, out |-> yielded]

SetGen(g) ==
    /\ genState' = g.state
    /\ cursorRows' = g.rows
    /\ cursorClosed' = g.closed
    /\ fetchLog' = g.log
    /\ page' = g.page
    /\ yielded' = g.out

\* The statement limited to `limit` rows is executed (query_raw) and the
\* consumer `name` runs the generator g it got to the point gEnd.
Executed(name, limit, gEnd, res) ==
    /\ op' = name
    /\ limitUsed' = limit
    /\ cursorAll' = LimitRows(matching, limit)
    /\ SetGen(gEnd)
    /\ result' = res
    /\ UNCHANGED <<matching, yieldPer>>
    /\ UNCHANGED <<facadeVars, createVars, contextVars, pureVars>>

\* all(): executes the statement and returns the generator unstarted.
CallAll ==
    /\ op = "idle"
    /\ Executed("all", 0, NewGenerator(LimitRows(matching, 0)), ReturnGenerator)

\* The caller of all() asks the generator for its next result.
UserNext(mode) ==
    /\ op = "all"
    /\ genState \in {"created", "suspended"}
    /\ SetGen(GenStep(CurGen, mode))
    /\ UNCHANGED <<matching, yieldPer, op, limitUsed, cursorAll, result>>
    /\ UNCHANGED <<facadeVars, createVars, contextVars, pureVars>>

\* The caller of all() drops the generator before it is exhausted.
UserDrop ==
    /\ op = "all"
    /\ genState \in {"created", "suspended"}
    /\ SetGen(GenClose(CurGen))
    /\ UNCHANGED <<matching, yieldPer, op, limitUsed, cursorAll, result>>
    /\ UNCHANGED <<facadeVars, createVars, contextVars, pureVars>>

\* first()
CallFirst(mode) ==
    /\ op = "idle"
    /\ LET g == GenStep(NewGenerator(LimitRows(matching, FirstLimit)), mode)
       IN Executed("first", FirstLimit, GenClose(g), FirstResult(g))

\* one_or_none()
CallOneOrNone(mode, at) ==
    /\ op = "idle"
    /\ LET g == Exhaust(NewGenerator(LimitRows(matching, OneOrNoneLimit)), mode, at)
       IN Executed("one_or_none", OneOrNoneLimit, g,
                   IF g.state = "raised" THEN Raise("Exception")
                   ELSE OneOrNoneResult(g.out))

\* one()
CallOne(mode, at) ==
    /\ op = "idle"
    /\ LET g == Exhaust(NewGenerator(LimitRows(matching, OneOrNoneLimit)), mode, at)
       IN Executed("one", OneOrNoneLimit, g,
                   IF g.state = "raised" THEN Raise("Exception")
                   ELSE OneResult(OneOrNoneResult(g.out)))

\* BigQueryModel.query_raw(sql_statement, *entities): query_empty builds a
\* facade over a query of the entities and the attribute _query_raw is then
\* looked up on it.  The facade has no method of that name, so the lookup
\* goes through __getattr__; only a callable that is found is called with
\* the statement.
CallModelQueryRaw ==
    /\ op = "idle"
    /\ LET found == IF "_query_raw" \in FacadeMethods
                    THEN "own"
                    ELSE Getattr(<<>>, "_query_raw").kind
       IN IF found \in {"AttributeError", "BigQueryOrmError"}
          THEN /\ op' = "model_query_raw"
               /\ result' = Raise(found)
               /\ UNCHANGED <<matching, yieldPer, limitUsed, cursorRows,
                              cursorAll, cursorClosed, fetchLog, genState,
                              page, yielded>>
               /\ UNCHANGED <<facadeVars, createVars, contextVars, pureVars>>
          ELSE Executed("model_query_raw", 0,
                        NewGenerator(LimitRows(matching, 0)), ReturnGenerator)

(***************************************************************************)
(* DatabaseContext: the thread-local stack of sessions (database.py).      *)
(***************************************************************************)

\* Most sessions created in one run.
MaxSessions == 3

Threads == {"t1", "t2"}

\* key of __enter__: the arguments the context was built with.
EngineKeys == {"bigquery://p/d1"}

\* A module-level object shared by all threads instead of threading.local().
SlotShared(t) == "t1"

\* global_database_context = threading.local(): every thread has its own
\* attributes, so a thread reads and writes its own slot.
Slot(t) == t

\* DatabaseContext.__get_sessions()
GetSessions(t) == sessions[Slot(t)]

\* get_session that returns the session of the outermost context.
GetSessionResultOutermost(t) ==
    LET ss == GetSessions(t)
    IN IF Len(ss) = 0
       THEN [kind |-> "DatabaseContextError", session |-> 0, key |-> None,
             depth |-> depth[t]]
       ELSE [kind |-> "session", session |-> ss[1].session, key |-> None,
             depth |-> depth[t]]

\* DatabaseContext.get_session() in thread t.
GetSessionResult(t) ==
    LET ss == GetSessions(t)
    IN IF Len(ss) = 0
       THEN [kind |-> "DatabaseContextError", session |-> 0, key |-> None,
             depth |-> depth[t]]
       ELSE [kind |-> "session", session |-> ss[Len(ss)].session, key |-> None,
             depth |-> depth[t]]

\* DatabaseContext.get_engine() in thread t.
GetEngineResult(t) ==
    LET ss == GetSessions(t)
    IN IF Len(ss) = 0
       THEN [kind |-> "DatabaseContextError", session |-> 0, key |-> None,
             depth |-> depth[t]]
       ELSE [kind |-> "engine", session |-> 0, key |-> ss[Len(ss)].engine,
             depth |-> depth[t]]

\* DatabaseContext.is_in_context() in thread t.
IsInContext(t) == Len(GetSessions(t)) > 0

\* __exit__ that closes without rolling back.
ExitEventsNoRollback(exc) == <<"close">>

\* The calls __exit__ makes on the session it popped: rollback when there
\* was an exception, and close in the finally clause.
ExitEvents(exc) == IF exc THEN <<"rollback", "close">> ELSE <<"close">>

\* An __exit__ without the finally clause: a rollback that raises leaves
\* before the session is closed.
ExitCallsNoFinally(exc, rollbackRaises) ==
    IF rollbackRaises THEN <<"rollback">> ELSE ExitEvents(exc)

\* The calls __exit__ has made when it is left: close is in the finally
\* clause, so it is made also when session.rollback() raises.
ExitCalls(exc, rollbackRaises) == ExitEvents(exc)

NoGet == [kind |-> "none", session |-> 0, key |-> None, depth |-> 0]

ContextIdle ==
    /\ sessions = [t \in Threads |-> <<>>]
    /\ engines = [t \in Threads |-> {}]
    /\ made = <<>>
    /\ depth = [t \in Threads |-> 0]
    /\ lastGet = [t \in Threads |-> NoGet]
    /\ actor = None

\* Thread t1 is inside one `with DatabaseContext(...)` block.
ContextEntered ==
    /\ sessions = [t \in Threads |->
                     IF t = "t1"
                     THEN <<[engine |-> "bigquery://p/d1", session |-> 1]>>
                     ELSE <<>>]
    /\ engines = [t \in Threads |-> IF t = "t1" THEN {"bigquery://p/d1"} ELSE {}]
    /\ made = <<[owner |-> "t1", key |-> "bigquery://p/d1", log |-> <<>>,
                 exit |-> "open", rollbackRaised |-> FALSE]>>
    /\ depth = [t \in Threads |-> IF t = "t1" THEN 1 ELSE 0]
    /\ lastGet = [t \in Threads |-> NoGet]
    /\ actor = "t1"

\* Thread t enters `with DatabaseContext(key)`: __enter__.
Enter(t, key) ==
    /\ Len(made) < MaxSessions
    /\ engines' = [engines EXCEPT ![Slot(t)] = @ \cup {key}]
    /\ made' = Append(made, [owner |-> t, key |-> key, log |-> <<>>,
                             exit |-> "open", rollbackRaised |-> FALSE])
    /\ sessions' = [sessions EXCEPT ![Slot(t)] =
                       Append(@, [engine |-> key, session |-> Len(made) + 1])]
    /\ depth' = [depth EXCEPT ![t] = @ + 1]
    /\ actor' = t
    /\ UNCHANGED lastGet
    /\ UNCHANGED <<facadeVars, queryVars, createVars, pureVars>>

\* Thread t leaves its innermost with-block: __exit__.  exc says whether the
\* block raised, rollbackRaises whether session.rollback() itself raises.
Exit(t, exc, rollbackRaises) ==
    /\ depth[t] > 0
    /\ Len(GetSessions(t)) > 0
    /\ rollbackRaises => exc
    /\ LET ss == GetSessions(t)
           s == ss[Len(ss)].session
       IN /\ sessions' = [sessions EXCEPT ![Slot(t)] = SubSeq(ss, 1, Len(ss) - 1)]
          /\ made' = [made EXCEPT ![s].log = @ \o ExitCalls(exc, rollbackRaises),
                                  ![s].exit = IF exc THEN "exception" ELSE "normal",
                                  ![s].rollbackRaised = rollbackRaises]
    /\ depth' = [depth EXCEPT ![t] = @ - 1]
    /\ actor' = t
    /\ UNCHANGED <<engines, lastGet>>
    /\ UNCHANGED <<facadeVars, queryVars, createVars, pureVars>>

\* Thread t calls DatabaseContext.get_session().
GetSession(t) ==
    /\ lastGet' = [lastGet EXCEPT ![t] = GetSessionResult(t)]
    /\ actor' = t
    /\ UNCHANGED <<sessions, engines, made, depth>>
    /\ UNCHANGED <<facadeVars, queryVars, createVars, pureVars>>

\* Thread t calls DatabaseContext.get_engine().
GetEngine(t) ==
    /\ lastGet' = [lastGet EXCEPT ![t] = GetEngineResult(t)]
    /\ actor' = t
    /\ UNCHANGED <<sessions, engines, made, depth>>
    /\ UNCHANGED <<facadeVars, queryVars, createVars, pureVars>>

(***************************************************************************)
(* Streaming ingestion: BigQueryCRUDMixin.create and _create_streaming.    *)
(***************************************************************************)

\* Longest instance list given to create.
MaxInstances == 3

\* Largest batch_size given to create.
MaxBatchSize == 3

\* Smallest batch_size given to create is -MinBatchSize.
MinBatchSize == 1

\* An instance of the model class whose geography attribute holds a polygon
\* the bind processor of its column rejects.
Unserializable == [cls |-> "Model", id |-> 3]

\* Instances: two of the model class (with the same values allowed twice in
\* a list), one of another class, and one that cannot be serialized.
InstanceSet ==
    {[cls |-> "Model", id |-> 1], [cls |-> "Model", id |-> 2],
     [cls |-> "Other", id |-> 1], Unserializable}

\* [inst.serialize_as_dict() for inst in instances] raises: the ValueError
\* of the first instance that cannot be serialized leaves the comprehension.
SerializationRaises(insts) ==
    \E i \in 1..Len(insts) : insts[i] = Unserializable

\* batch_size: None, or an integer.
BatchSizes ==
    {[isNone |-> TRUE, value |-> 0]}
    \cup {[isNone |-> FALSE, value |-> n] : n \in (0 - MinBatchSize)..MaxBatchSize}

\* table.schema: the fields of the table when the caller starts.
SchemaFields == {"id", "ingested_by"}

\* The fields of the table after a field was added to it.
WidenedSchemaFields == SchemaFields \cup {"added_later"}

\* client.get_table(table_ref): the table with its schema, or NotFound.
TableFound(schema) == [found |-> TRUE, schema |-> schema]
TableNotFound == [found |-> FALSE, schema |-> {}]

\* inst.serialize_as_dict() for a model that declares the column id.
SerializeAsDict(inst) == [f \in {"id"} |-> inst.id]

\* empty_row = {field.name: None for field in table.schema}
EmptyRow(schema) == [f \in schema |-> None]

\* dict(empty_row, **params)
Overlay(base, params) ==
    [f \in DOMAIN base \cup DOMAIN params |->
        IF f \in DOMAIN params THEN params[f] ELSE base[f]]

\* Rows widened to the fields the table had when the caller started.
StreamingRowsFirstSchema(insts, schema) ==
    [i \in 1..Len(insts) |->
        Overlay(EmptyRow(SchemaFields), SerializeAsDict(insts[i]))]

\* seq_of_parameters of _create_streaming(instances)
StreamingRows(insts, schema) ==
    [i \in 1..Len(insts) |-> Overlay(EmptyRow(schema), SerializeAsDict(insts[i]))]

\* any(...) in the place of all(...).
AnyOfClass(insts) ==
    insts = <<>> \/ \E i \in 1..Len(insts) : insts[i].cls = "Model"

\* all([type(inst) == cls for inst in instances])
AllOfClass(insts) == \A i \in 1..Len(insts) : insts[i].cls = "Model"

\* A batch_size test that lets zero through.
BatchSizeNegative(b) == b < 0

\* batch_size < 1
BatchSizeInvalid(b) == b < 1

\* A slice that is one instance short.
InstancesSliceShort(insts, i, b) == SubSeq(insts, i + 1, Min(i + b - 1, Len(insts)))

\* instances[i:i+batch_size]
InstancesSlice(insts, i, b) == SubSeq(insts, i + 1, Min(i + b, Len(insts)))

(***************************************************************************)
(* GeoJSON import: BigQueryCRUDMixin.parse_from_geojson.                   *)
(***************************************************************************)

\* Longest feature list given to parse_from_geojson.
MaxFeatures == 2

\* Every dict whose keys are among keys and whose values are among vals.
Dicts(keys, vals) == UNION {[d -> vals] : d \in SUBSET keys}

EmptyDict == [k \in {} |-> None]

\* Keys of a feature's 'properties'.
FeatureKeys == {"intr", "name"}

\* A feature: its properties, and its 'geometry' entry (absent, null or a
\* geometry).
Features ==
    {[properties |-> props, hasGeometry |-> h, geometry |-> g] :
        props \in Dicts(FeatureKeys, {"v1"}),
        h \in BOOLEAN, g \in {None, "point"}}
    \ {[properties |-> props, hasGeometry |-> FALSE, geometry |-> "point"] :
        props \in Dicts(FeatureKeys, {"v1"})}

\* relabel: no two keys of a feature are given the same name.
Relabels ==
    {EmptyDict, [k \in {"name"} |-> "label"], [k \in {"name"} |-> "geojson"]}

Ignores == {{}, {"name"}, {"label"}}

DefaultsMaps == Dicts({"intr", "geojson"}, {"d1"})

\* geometry_property_name: a property name, or an empty string.
GeometryPropertyNames == {"geojson", ""}

\* feature.get('geometry', None)
FeatureGeometry(feature) ==
    IF feature.hasGeometry THEN feature.geometry ELSE None

\* relabel.get(k, k)
RelabelKey(relabel, k) == IF k \in DOMAIN relabel THEN relabel[k] ELSE k

\* {relabel.get(k, k): v for k, v in properties.items() if k not in ignore}
RelabelledProperties(props, relabel, ignore) ==
    LET kept == {k \in DOMAIN props : k \notin ignore}
    IN [n \in {RelabelKey(relabel, k) : k \in kept} |->
           props[CHOOSE k \in kept : RelabelKey(relabel, k) = n]]

\* kwargs = dict(base); kwargs.update(other)
DictUpdate(base, other) == Overlay(base, other)

\* feature_to_instance(feature): the keyword arguments the instance is
\* constructed with, or the exception raised.
FeatureToInstance(feature, args) ==
    LET geometry == FeatureGeometry(feature)
        properties == RelabelledProperties(feature.properties, args.relabel,
                                           args.ignore)
        name == args.geometry_property_name
        withGeometry == IF name # ""
                        THEN Overlay(properties, [k \in {name} |-> geometry])
                        ELSE properties
    IN IF geometry = None /\ ~args.allow_null_geometry
       THEN [kind |-> "ValueError", kwargs |-> EmptyDict]
       ELSE IF name # "" /\ name \in DOMAIN properties
       THEN [kind |-> "ValueError", kwargs |-> EmptyDict]
       ELSE [kind |-> "instance",
             kwargs |-> DictUpdate(args.defaults, withGeometry)]

\* parse_from_geojson: the list of instances, or the first exception.
ParseFromGeojson(args) ==
    LET made_ == [i \in 1..Len(args.features) |->
                    FeatureToInstance(args.features[i], args)]
    IN IF \E i \in 1..Len(made_) : made_[i].kind = "ValueError"
       THEN [kind |-> "ValueError", value |-> <<>>]
       ELSE [kind |-> "instances",
             value |-> [i \in 1..Len(made_) |-> made_[i].kwargs]]

ParseInputs ==
    [features : SeqsUpTo(Features, MaxFeatures),
     geometry_property_name : GeometryPropertyNames,
     relabel : Relabels,
     ignore : Ignores,
     defaults : DefaultsMaps,
     allow_null_geometry : BOOLEAN]

ParsePending == [kind |-> "pending", value |-> <<>>]

ParseInit ==
    /\ parseArgs \in ParseInputs
    /\ parseResult = ParsePending

\* A caller calls Model.parse_from_geojson with the arguments drawn.
ParseCall ==
    /\ parseResult = ParsePending
    /\ parseResult' = ParseFromGeojson(parseArgs)
    /\ UNCHANGED parseArgs
    /\ UNCHANGED <<facadeVars, queryVars, createVars, contextVars,
                   columnVars, exportVars, geoVars, serVars>>

(***************************************************************************)
(* Ingestion entrypoints: create, create_load_job, _create_helper.         *)
(***************************************************************************)

\* The thread that calls the ingestion entrypoints.
Caller == "t1"

\* A Python list or dict that may also be None.
PyNone == [isNone |-> TRUE, items |-> <<>>]

ListOf(items) == [isNone |-> FALSE, items |-> items]

\* `x and len(x) > 0`
Truthy(x) == ~x.isNone /\ Len(x.items) > 0

\* What client.insert_rows does for one call: it raises, or it returns a
\* list with one entry per row the warehouse refused.
InsertOutcomes ==
    {[raises |-> FALSE, errors |-> <<>>],
     [raises |-> FALSE, errors |-> <<"e1">>],
     [raises |-> FALSE, errors |-> <<"e1", "e2">>],
     [raises |-> TRUE, errors |-> <<>>]}

\* A check that lets a single row error through.
HasErrorsMany(errors) == Len(errors) > 1

\* len(errors) > 0
HasErrors(errors) == Len(errors) > 0

\* How a load job ends: load_job.result() raises or not, and the job's
\* errors and error_result once it is terminal.
JobOutcomes ==
    {[waitRaises |-> w, errors |-> e, errorResult |-> r] :
        w \in BOOLEAN,
        e \in {PyNone, ListOf(<<>>), ListOf(<<"e1">>)},
        r \in {PyNone, ListOf(<<"notFound">>)}}

\* A check of the error result alone.
LoadJobFailedResultOnly(job) == Truthy(job.errorResult)

\* (load_job.error_result and len(load_job.error_result) > 0)
\*  or (load_job.errors and len(load_job.errors) > 0)
LoadJobFailed(job) == Truthy(job.errorResult) \/ Truthy(job.errors)

\* The newline-delimited JSON file: one line per instance, in order.
LoadPayload(insts) == [i \in 1..Len(insts) |-> SerializeAsDict(insts[i])]

\* What a raised exception was constructed with.
NoArg == [errors |-> PyNone, exc |-> None, errorResult |-> PyNone]

NoJob == [waitRaises |-> FALSE, errors |-> PyNone, errorResult |-> PyNone]

NoBatchSize == [isNone |-> TRUE, value |-> 0]

NoHelper == [create_method |-> None, instances |-> <<>>, batch_size |-> NoBatchSize]

CreateMethods == {"streaming", "load_job", "upsert"}

\* A dispatch that falls back to streaming.
CreateHelperTargetLenient(create_method) ==
    IF create_method = "load_job" THEN "create_load_job" ELSE "create"

\* The branch _create_helper takes for a strategy name.
CreateHelperTarget(create_method) ==
    IF create_method = "streaming" THEN "create"
    ELSE IF create_method = "load_job" THEN "create_load_job"
    ELSE "ValueError"

\* Rows as the warehouse holds them, each with the path it arrived by.
RowsVia(via, rows) == [i \in 1..Len(rows) |-> [via |-> via, row |-> rows[i]]]

ExistingRows == RowsVia("existing", <<[f \in {"id"} |-> 1]>>)

CreateIdle ==
    /\ instances = <<>>
    /\ batchSize = NoBatchSize
    /\ createPc = "idle"
    /\ sliceStart = 0
    /\ insertCalls = <<>>
    /\ schemaLookups = <<>>
    /\ tableSchema = SchemaFields
    /\ createErr = None
    /\ entry = None
    /\ helper = NoHelper
    /\ insertResults = <<>>
    /\ createErrArg = NoArg
    /\ loadJobs = <<>>
    /\ jobOutcome = NoJob
    /\ tableExists = TRUE
    /\ tableRows = ExistingRows
    /\ parsed = <<>>

\* The same, with the table present or not yet created.
CreateInit ==
    /\ instances = <<>>
    /\ batchSize = NoBatchSize
    /\ createPc = "idle"
    /\ sliceStart = 0
    /\ insertCalls = <<>>
    /\ schemaLookups = <<>>
    /\ tableSchema = SchemaFields
    /\ createErr = None
    /\ entry = None
    /\ helper = NoHelper
    /\ insertResults = <<>>
    /\ createErrArg = NoArg
    /\ loadJobs = <<>>
    /\ jobOutcome = NoJob
    /\ tableExists \in BOOLEAN
    /\ tableRows = IF tableExists THEN ExistingRows ELSE <<>>
    /\ parsed = <<>>

\* No ingestion entrypoint has been called yet in this run.
NoCallYet == createPc = "idle"

\* create(instances, batch_size) from its entry to the first call of
\* _create_streaming: the class check, the batch_size check, and the start
\* of the loop (an empty range ends it at once).
CreateBody(insts, b) ==
    /\ entry' = "create"
    /\ instances' = insts
    /\ batchSize' = b
    /\ sliceStart' = 0
    /\ IF ~AllOfClass(insts)
       THEN createPc' = "raised" /\ createErr' = "BigQueryOrmError"
       ELSE IF b.isNone
       THEN createPc' = "stream_all" /\ createErr' = None
       ELSE IF BatchSizeInvalid(b.value)
       THEN createPc' = "raised" /\ createErr' = "ValueError"
       ELSE /\ createPc' = IF 0 < Len(insts) THEN "loop" ELSE "returned"
            /\ createErr' = None
    /\ UNCHANGED <<insertCalls, schemaLookups, insertResults, createErrArg,
                   loadJobs, jobOutcome, tableExists, tableSchema, tableRows, parsed>>

\* A caller calls Model.create(instances, batch_size).
CreateCall(insts, b) ==
    /\ NoCallYet
    /\ CreateBody(insts, b)
    /\ UNCHANGED helper
    /\ UNCHANGED <<facadeVars, queryVars, contextVars, pureVars>>

\* An insertion call whose exception is swallowed.
InsertRaisesCaught(outcome) == FALSE

\* client.insert_rows(table, seq_of_parameters) raises: nothing catches the
\* exception in _create_streaming or in create.
InsertRaises(outcome) == outcome.raises

\* One call of _create_streaming made by create: the session lookup, the
\* schema lookup, the single insert_rows call, and the check of the errors
\* it returned; then the loop's next iteration or the return of create.
CreateStreaming(outcome) ==
    /\ createPc \in {"stream_all", "loop"}
    /\ LET slice == IF createPc = "stream_all" THEN instances
                    ELSE InstancesSlice(instances, sliceStart, batchSize.value)
           next == sliceStart + batchSize.value
       IN IF ~IsInContext(Caller)
          THEN /\ createPc' = "raised"
               /\ createErr' = "DatabaseContextError"
               /\ UNCHANGED <<sliceStart, schemaLookups, insertCalls,
                              insertResults, createErrArg, tableRows>>
          ELSE IF ~tableExists
          THEN /\ createPc' = "raised"
               /\ createErr' = "NotFound"
               /\ schemaLookups' = Append(schemaLookups, TableNotFound)
               /\ UNCHANGED <<sliceStart, insertCalls, insertResults,
                              createErrArg, tableRows>>
          ELSE IF SerializationRaises(slice)
          THEN /\ createPc' = "raised"
               /\ createErr' = "ValueError"
               /\ schemaLookups' = Append(schemaLookups, TableFound(tableSchema))
               /\ UNCHANGED <<sliceStart, insertCalls, insertResults,
                              createErrArg, tableRows>>
          ELSE /\ schemaLookups' = Append(schemaLookups, TableFound(tableSchema))
               /\ insertCalls' = Append(insertCalls, StreamingRows(slice, tableSchema))
               /\ insertResults' = Append(insertResults, outcome)
               /\ IF InsertRaises(outcome)
                  THEN /\ createPc' = "raised"
                       /\ createErr' = "GoogleAPICallError"
                       /\ UNCHANGED <<sliceStart, createErrArg, tableRows>>
                  ELSE IF HasErrors(outcome.errors)
                  THEN /\ createPc' = "raised"
                       /\ createErr' = "DatabaseError"
                       /\ createErrArg' = [NoArg EXCEPT !.errors = ListOf(outcome.errors)]
                       /\ UNCHANGED <<sliceStart, tableRows>>
                  ELSE /\ tableRows' = tableRows \o RowsVia("streaming",
                                                     StreamingRows(slice, tableSchema))
                       /\ UNCHANGED createErrArg
                       /\ IF createPc = "stream_all"
                          THEN /\ createPc' = "returned"
                               /\ UNCHANGED <<sliceStart, createErr>>
                          ELSE /\ sliceStart' = next
                               /\ createPc' = IF next < Len(instances)
                                              THEN "loop" ELSE "returned"
                               /\ UNCHANGED createErr
    /\ UNCHANGED <<instances, batchSize, entry, helper, loadJobs, jobOutcome,
                   tableExists, tableSchema, parsed>>
    /\ UNCHANGED <<facadeVars, queryVars, contextVars, pureVars>>

\* Another client of the warehouse adds a field to the table while a create
\* is going through its batches.
AlterTable ==
    /\ createPc = "loop"
    /\ tableExists
    /\ tableSchema = SchemaFields
    /\ tableSchema' = WidenedSchemaFields
    /\ UNCHANGED <<instances, batchSize, createPc, sliceStart, insertCalls,
                   schemaLookups, createErr, entry, helper, insertResults,
                   createErrArg, loadJobs, jobOutcome, tableExists, tableRows,
                   parsed>>
    /\ UNCHANGED <<facadeVars, queryVars, contextVars, pureVars>>

\* create_load_job(instances): the class check, the serialization of every
\* instance, the session lookup, the submission of the one job, the wait
\* for it and the check of what it reports.
LoadJobBody(insts, job) ==
    /\ entry' = "create_load_job"
    /\ instances' = insts
    /\ IF ~AllOfClass(insts)
       THEN /\ createPc' = "raised"
            /\ createErr' = "BigQueryOrmError"
            /\ UNCHANGED <<loadJobs, jobOutcome, createErrArg, tableRows>>
       ELSE IF insts # <<>> /\ ~IsInContext(Caller)
       THEN \* serialize_as_dict looks the session up for the first value
            /\ createPc' = "raised"
            /\ createErr' = "DatabaseContextError"
            /\ UNCHANGED <<loadJobs, jobOutcome, createErrArg, tableRows>>
       ELSE IF SerializationRaises(insts)
       THEN /\ createPc' = "raised"
            /\ createErr' = "ValueError"
            /\ UNCHANGED <<loadJobs, jobOutcome, createErrArg, tableRows>>
       ELSE IF ~IsInContext(Caller)
       THEN /\ createPc' = "raised"
            /\ createErr' = "DatabaseContextError"
            /\ UNCHANGED <<loadJobs, jobOutcome, createErrArg, tableRows>>
       ELSE /\ loadJobs' = Append(loadJobs, LoadPayload(insts))
            /\ jobOutcome' = job
            /\ IF job.waitRaises
               THEN /\ createPc' = "raised"
                    /\ createErr' = "DatabaseError"
                    /\ createErrArg' = [errors |-> job.errors, exc |-> "Exception",
                                        errorResult |-> job.errorResult]
                    /\ UNCHANGED tableRows
               ELSE IF LoadJobFailed(job)
               THEN /\ createPc' = "raised"
                    /\ createErr' = "DatabaseError"
                    /\ createErrArg' = [errors |-> job.errors, exc |-> None,
                                        errorResult |-> job.errorResult]
                    /\ UNCHANGED tableRows
               ELSE /\ createPc' = "returned"
                    /\ createErr' = None
                    /\ tableRows' = tableRows \o RowsVia("load_job", LoadPayload(insts))
                    /\ UNCHANGED createErrArg
    /\ UNCHANGED <<batchSize, sliceStart, insertCalls, schemaLookups,
                   insertResults, tableExists, tableSchema, parsed>>

\* A job whose destination table does not exist cannot succeed
\* (create_disposition is CREATE_NEVER).
JobPossible(job) == tableExists \/ job.waitRaises \/ LoadJobFailed(job)

\* A caller calls Model.create_load_job(instances).
CreateLoadJob(insts, job) ==
    /\ NoCallYet
    /\ JobPossible(job)
    /\ LoadJobBody(insts, job)
    /\ UNCHANGED helper
    /\ UNCHANGED <<facadeVars, queryVars, contextVars, pureVars>>

\* _create_helper(create_method, instances, batch_size=b)
CreateHelper(create_method, insts, b, job) ==
    /\ NoCallYet
    /\ helper' = [create_method |-> create_method, instances |-> insts,
                  batch_size |-> b]
    /\ LET target == CreateHelperTarget(create_method)
       IN IF target = "create"
          THEN job = NoJob /\ CreateBody(insts, b)
          ELSE IF target = "create_load_job"
          THEN JobPossible(job) /\ LoadJobBody(insts, job)
          ELSE /\ job = NoJob
               /\ createPc' = "raised"
               /\ createErr' = "ValueError"
               /\ UNCHANGED <<instances, batchSize, sliceStart, insertCalls,
                              schemaLookups, entry, insertResults, createErrArg,
                              loadJobs, jobOutcome, tableExists, tableSchema, tableRows, parsed>>
    /\ UNCHANGED <<facadeVars, queryVars, contextVars, pureVars>>

(***************************************************************************)
(* Import adapters: parse_from_pandas, parse_from_geojson, and the         *)
(* ingestion step that create_from_pandas makes after parsing.             *)
(***************************************************************************)

\* Most rows of a data frame given to parse_from_pandas.
MaxFrameRows == 2

\* A data frame with the one column id: its rows, in order.
PandasFrames == SeqsUpTo({1, 2}, MaxFrameRows)

IfExists == {"fail", "replace", "append"}

\* pandas' own insertion method, which executes an INSERT with the rows.
ToSqlInsert(rows, frame) ==
    rows \o RowsVia("to_sql", [i \in 1..Len(frame) |-> [f \in {"id"} |-> frame[i]]])

\* The rows of the table after to_sql has called `method` with the frame:
\* method only appends cls(**dict(zip(keys, params))) to the local list and
\* executes nothing on the connection.
ToSqlMethod(rows, frame) == rows

\* instances, as method has filled it
FrameInstances(frame) == [i \in 1..Len(frame) |-> [cls |-> "Model", id |-> frame[i]]]

\* A caller calls Model.parse_from_pandas(df, if_exists=if_exists): get_engine,
\* then DataFrame.to_sql, which fails on an existing table with 'fail',
\* drops and recreates it with 'replace', creates it when it is missing, and
\* then hands the rows to method.
ParseFromPandas(frame, if_exists) ==
    /\ createPc = "idle"
    /\ entry' = "parse_from_pandas"
    /\ IF ~IsInContext(Caller)
       THEN /\ createPc' = "parse_raised"
            /\ createErr' = "DatabaseContextError"
            /\ UNCHANGED <<tableExists, tableSchema, tableRows, parsed>>
       ELSE IF tableExists /\ if_exists = "fail"
       THEN /\ createPc' = "parse_raised"
            /\ createErr' = "ValueError"
            /\ UNCHANGED <<tableExists, tableSchema, tableRows, parsed>>
       ELSE /\ createPc' = "parsed"
            /\ tableExists' = TRUE
            /\ UNCHANGED tableSchema
            /\ tableRows' = IF tableExists /\ if_exists = "append"
                            THEN ToSqlMethod(tableRows, frame)
                            ELSE ToSqlMethod(<<>>, frame)
            /\ parsed' = FrameInstances(frame)
            /\ UNCHANGED createErr
    /\ UNCHANGED <<instances, batchSize, sliceStart, insertCalls, schemaLookups,
                   helper, insertResults, createErrArg, loadJobs, jobOutcome>>
    /\ UNCHANGED <<facadeVars, queryVars, contextVars, pureVars>>

\* The arguments of the parse_from_geojson calls made here.
GeojsonCallInputs ==
    [features : SeqsUpTo(Features, 1),
     geometry_property_name : GeometryPropertyNames,
     relabel : {EmptyDict},
     ignore : {{}},
     defaults : {EmptyDict},
     allow_null_geometry : BOOLEAN]

\* A caller calls Model.parse_from_geojson: no session, engine or client is
\* used.
ParseGeojson(args) ==
    /\ createPc = "idle"
    /\ entry' = "parse_from_geojson"
    /\ LET res == ParseFromGeojson(args)
       IN IF res.kind = "ValueError"
          THEN /\ createPc' = "parse_raised"
               /\ createErr' = "ValueError"
               /\ UNCHANGED parsed
          ELSE /\ createPc' = "parsed"
               /\ parsed' = res.value
               /\ UNCHANGED createErr
    /\ UNCHANGED <<instances, batchSize, sliceStart, insertCalls, schemaLookups,
                   helper, insertResults, createErrArg, loadJobs, jobOutcome,
                   tableExists, tableSchema, tableRows>>
    /\ UNCHANGED <<facadeVars, queryVars, contextVars, pureVars>>

\* The ingestion step after parse_from_pandas returned: the second statement
\* of create_from_pandas, or the caller's own call, hands the parsed
\* instances to _create_helper.
IngestParsed(create_method, b, job) ==
    /\ createPc = "parsed"
    /\ entry = "parse_from_pandas"
    /\ helper' = [create_method |-> create_method, instances |-> parsed,
                  batch_size |-> b]
    /\ LET target == CreateHelperTarget(create_method)
       IN IF target = "create"
          THEN job = NoJob /\ CreateBody(parsed, b)
          ELSE IF target = "create_load_job"
          THEN JobPossible(job) /\ LoadJobBody(parsed, job)
          ELSE /\ job = NoJob
               /\ createPc' = "raised"
               /\ createErr' = "ValueError"
               /\ UNCHANGED <<instances, batchSize, sliceStart, insertCalls,
                              schemaLookups, entry, insertResults, createErrArg,
                              loadJobs, jobOutcome, tableExists, tableSchema, tableRows, parsed>>
    /\ UNCHANGED <<facadeVars, queryVars, contextVars, pureVars>>

(***************************************************************************)
(* BigQueryColumn.__init__.                                                *)
(***************************************************************************)

\* A Python value: its type, and its magnitude n (the value of an int or
\* bool, the length of a str or list).
PyValue(type, n) == [type |-> type, n |-> n]

PyNoneValue == PyValue("NoneType", 0)

\* bool(x)
PyTruthy(x) ==
    /\ x.type # "NoneType"
    /\ x.type = "function" \/ x.n # 0

\* x is not None
IsNotNone(x) == x.type # "NoneType"

\* default=...: absent or None, or a scalar or callable default.
ColumnDefaults ==
    {PyNoneValue, PyValue("int", 0), PyValue("int", 1), PyValue("str", 0),
     PyValue("str", 1), PyValue("bool", 0), PyValue("bool", 1),
     PyValue("function", 1)}

\* server_default=...: absent or None, or an SQL text (the empty one too).
ServerDefaults == {PyNoneValue, PyValue("str", 0), PyValue("str", 1)}

\* nullable=...: absent, True or False.
Nullables == {"absent", "True", "False"}

ColumnNames == {"intr", "_PARTITIONTIME"}

ColumnInputs ==
    [name : ColumnNames, nullable : Nullables, default : ColumnDefaults,
     server_default : ServerDefaults]

\* kwargs.get('nullable', True)
NullableOf(kwargs) == kwargs.nullable # "False"

\* BigQueryColumn(name, type, **kwargs): the column, or the exception raised.
BigQueryColumn(kwargs) ==
    LET nullable == NullableOf(kwargs)
        column == [kind |-> "column", name |-> kwargs.name,
                   primary_key |-> TRUE, nullable |-> nullable,
                   default |-> kwargs.default,
                   server_default |-> kwargs.server_default]
        raised(e) == [column EXCEPT !.kind = e]
    IN IF PyTruthy(kwargs.default) /\ nullable
       THEN raised("BigQueryOrmError")
       ELSE IF IsNotNone(kwargs.server_default)
       THEN raised("BigQueryOrmError")
       ELSE IF kwargs.name = "_PARTITIONTIME"
       THEN raised("ValueError")
       ELSE column

ColumnPending == [kind |-> "pending"]

ColumnInit ==
    /\ colArgs \in ColumnInputs
    /\ colResult = ColumnPending

\* A model class body constructs BigQueryColumn with the arguments drawn.
ColumnCall ==
    /\ colResult = ColumnPending
    /\ colResult' = BigQueryColumn(colArgs)
    /\ UNCHANGED colArgs
    /\ UNCHANGED <<facadeVars, queryVars, createVars, contextVars,
                   exportVars, parseVars, geoVars, serVars>>

(***************************************************************************)
(* GeoJSON export: serialization._dicts_to_geojson.                        *)
(***************************************************************************)

\* Longest list of row mappings given to _dicts_to_geojson.
MaxExportRows == 2

\* Values of a row mapping: a type and a text.
IntrValue == [type |-> "int", v |-> "1"]

GeometryDict == [type |-> "dict", v |-> "point"]

NullValue == [type |-> "NoneType", v |-> None]

\* A geometry column holds a geometry mapping, its JSON text, a text that
\* is not JSON (WKT), or null.
GeometryValues ==
    {GeometryDict, [type |-> "str", v |-> "{point}"],
     [type |-> "str", v |-> "POINT(5 7)"], NullValue}

\* Row mappings: intr and geojson, each present or not.
ExportRows ==
    {Overlay(a, b) :
        a \in {EmptyDict, [k \in {"intr"} |-> IntrValue]},
        b \in {EmptyDict} \cup {[k \in {"geojson"} |-> g] : g \in GeometryValues}}

\* geometry_column: a key, an empty string, or None.
GeometryColumns == {"geojson", "", None}

ExcludedKeys == {{}, {"intr"}, {"geojson"}}

ExportInputs ==
    [dicts : SeqsUpTo(ExportRows, MaxExportRows),
     geometry_column : GeometryColumns,
     excluded_keys : ExcludedKeys,
     as_str : BOOLEAN]

\* json.loads(text): the value, or failed when the text is not JSON.
JsonLoads(x) ==
    IF x.v = "{point}" THEN [failed |-> FALSE, value |-> GeometryDict]
    ELSE [failed |-> TRUE, value |-> NullValue]

\* `if geometry_column:`
GeometryRequested(geometry_column) == geometry_column \notin {None, ""}

\* A lookup that leaves the key in the mapping.
DictGetRest(d, key) == d

\* What is left of d after d.pop(key).
DictPopRest(d, key) == [k \in DOMAIN d \ {key} |-> d[k]]

\* dict_to_feature(_dict): the feature, or the exception raised.
DictToFeature(d, args) ==
    LET properties == [k \in {k \in DOMAIN d : k \notin args.excluded_keys} |-> d[k]]
        column == args.geometry_column
        Feature(geometry, props) ==
            [kind |-> "Feature", geometry |-> geometry, properties |-> props]
        Raised(e) == [kind |-> e, geometry |-> NullValue, properties |-> EmptyDict]
    IN IF ~GeometryRequested(column)
       THEN Feature(NullValue, properties)
       ELSE IF column \notin DOMAIN properties
       THEN Raised("JsonSerializableOrmKeyError")
       ELSE LET geometry == properties[column]
                rest == DictPopRest(properties, column)
            IN IF geometry.type = "str"
               THEN IF JsonLoads(geometry).failed
                    THEN Raised("JsonSerializableOrmRuntimeError")
                    ELSE Feature(JsonLoads(geometry).value, rest)
               ELSE Feature(geometry, rest)

\* _json_dump(geojson) when as_str, else the mapping itself.
ExportForm(as_str) == IF as_str THEN "str" ELSE "dict"

\* _dicts_to_geojson(dicts, geometry_column, excluded_keys, as_str): the
\* feature collection, or the exception of the first row that raises.
DictsToGeojson(args) ==
    LET features == [i \in 1..Len(args.dicts) |-> DictToFeature(args.dicts[i], args)]
        failing == {i \in 1..Len(features) : features[i].kind # "Feature"}
    IN IF failing # {}
       THEN [kind |-> features[CHOOSE i \in failing : \A j \in failing : i <= j].kind,
             form |-> "none", features |-> <<>>]
       ELSE [kind |-> "FeatureCollection", form |-> ExportForm(args.as_str),
             features |-> features]

ExportPending == [kind |-> "pending", form |-> "none", features |-> <<>>]

ExportInit ==
    /\ exportArgs \in ExportInputs
    /\ exportResult = ExportPending

\* all_as_geojson hands the rows of the query to _dicts_to_geojson.
ExportCall ==
    /\ exportResult = ExportPending
    /\ exportResult' = DictsToGeojson(exportArgs)
    /\ UNCHANGED exportArgs
    /\ UNCHANGED <<facadeVars, queryVars, createVars, contextVars,
                   columnVars, parseVars, geoVars, serVars>>

(***************************************************************************)
(* Geography values: _orient_polygon, _geovalue_to_shapely and             *)
(* convert_geovalue_to_geojson_str (bigquery_types.py).                    *)
(***************************************************************************)

\* Most rings of a polygon given to convert_geovalue_to_geojson_str.
MaxRings == 3

\* Axis-aligned boxes <<x0, y0, x1, y1>>: one large box and two small ones
\* that lie inside it and apart from each other.
Boxes == {<<0, 0, 5, 5>>, <<1, 1, 2, 2>>, <<3, 3, 4, 4>>}

\* ring[::-1]
Reverse(ring) == [i \in 1..Len(ring) |-> ring[Len(ring) + 1 - i]]

\* The closed linear ring around a box, counter-clockwise or clockwise.
BoxRing(box, ccw) ==
    LET ring == << <<box[1], box[2]>>, <<box[3], box[2]>>, <<box[3], box[4]>>,
                   <<box[1], box[4]>>, <<box[1], box[2]>> >>
    IN IF ccw THEN ring ELSE Reverse(ring)

Rings == {BoxRing(box, ccw) : box \in Boxes, ccw \in BOOLEAN}

\* GeoJSON polygons: the first ring is the exterior, the others are holes.
GeoValues ==
    {[type |-> "Polygon", coordinates |-> rings] :
        rings \in SeqsUpTo(Rings, MaxRings) \ {<<>>}}

\* LinearRing(coordinates): shapely repeats the first point when the
\* sequence is not closed.
LinearRing(coordinates) ==
    IF coordinates[1] = coordinates[Len(coordinates)]
    THEN coordinates
    ELSE Append(coordinates, coordinates[1])

\* shapely.geometry.shape(value) of a polygon mapping.
Shape(value) ==
    [shell |-> LinearRing(value.coordinates[1]),
     holes |-> [i \in 1..(Len(value.coordinates) - 1) |->
                    LinearRing(value.coordinates[i + 1])]]

RECURSIVE SignedAreaSum(_, _)
SignedAreaSum(e, k) ==
    IF k < 2 THEN 0
    ELSE e[k][1] * (e[k + 1][2] - e[k - 1][2]) + SignedAreaSum(e, k - 1)

\* Twice shapely's signed_area(ring): positive for a counter-clockwise ring.
SignedArea2(ring) == SignedAreaSum(Append(ring, ring[2]), Len(ring))

Xs(ring) == {ring[i][1] : i \in 1..Len(ring)}
Ys(ring) == {ring[i][2] : i \in 1..Len(ring)}
Lowest(S) == CHOOSE v \in S : \A w \in S : v <= w
Highest(S) == CHOOSE v \in S : \A w \in S : w <= v

\* Ring a lies strictly inside ring b (exact for rings around boxes).
RingInside(a, b) ==
    /\ Lowest(Xs(b)) < Lowest(Xs(a))
    /\ Highest(Xs(a)) < Highest(Xs(b))
    /\ Lowest(Ys(b)) < Lowest(Ys(a))
    /\ Highest(Ys(a)) < Highest(Ys(b))

\* Rings a and b have no point in common (exact for rings around boxes).
RingsApart(a, b) ==
    \/ Highest(Xs(a)) < Lowest(Xs(b))
    \/ Highest(Xs(b)) < Lowest(Xs(a))
    \/ Highest(Ys(a)) < Lowest(Ys(b))
    \/ Highest(Ys(b)) < Lowest(Ys(a))

\* A polygon shapely accepts whatever its rings are.
IsValidAnyRings(polygon) == TRUE

\* shape_value.is_valid: every ring encloses an area, every hole lies
\* inside the shell and the holes do not meet.
IsValid(polygon) ==
    /\ SignedArea2(polygon.shell) # 0
    /\ \A i \in 1..Len(polygon.holes) :
        /\ SignedArea2(polygon.holes[i]) # 0
        /\ RingInside(polygon.holes[i], polygon.shell)
        /\ \A j \in 1..Len(polygon.holes) :
            i # j => RingsApart(polygon.holes[i], polygon.holes[j])

\* shapely.geometry.polygon.orient(polygon, sign): the exterior gets the
\* sign, the interiors the opposite one; a ring of the wrong sign is
\* reversed.
ShapelyOrient(polygon, sign) ==
    [shell |-> IF SignedArea2(polygon.shell) * sign >= 0
               THEN polygon.shell
               ELSE Reverse(polygon.shell),
     holes |-> [i \in 1..Len(polygon.holes) |->
                    IF SignedArea2(polygon.holes[i]) * sign <= 0
                    THEN polygon.holes[i]
                    ELSE Reverse(polygon.holes[i])]]

\* _orient_polygon of a LinearRing: the ring becomes the exterior of a
\* polygon without holes, and the oriented exterior is returned.
OrientRing(ring, sign) ==
    ShapelyOrient([shell |-> ring, holes |-> <<>>], sign).shell

\* The polygon as shapely's orient alone leaves it.
OrientPolygonShapely(polygon, sign) == ShapelyOrient(polygon, sign)

\* _orient_polygon of a Polygon: the exterior of shapely's orient, and
\* every interior oriented on its own as a ring, with the same sign.
OrientPolygon(polygon, sign) ==
    [shell |-> ShapelyOrient(polygon, sign).shell,
     holes |-> [i \in 1..Len(polygon.holes) |->
                    OrientRing(polygon.holes[i], sign)]]

NoGeometry == [type |-> "None", coordinates |-> <<>>]

\* shapely.geometry.mapping(polygon): the exterior first, then the holes.
ShapelyToGeojson(polygon) ==
    [type |-> "Polygon", coordinates |-> <<polygon.shell>> \o polygon.holes]

\* _geovalue_to_shapely(value) followed by the dump of its mapping: the
\* wire text of the oriented polygon, or ValueError for an invalid one.
ConvertGeovalueToGeojsonStr(value) ==
    IF ~IsValid(Shape(value))
    THEN [kind |-> "ValueError", value |-> NoGeometry]
    ELSE [kind |-> "str",
          value |-> ShapelyToGeojson(OrientPolygon(Shape(value), 1))]

GeoPending == [kind |-> "pending", value |-> NoGeometry]

GeoInit ==
    /\ geoArgs \in GeoValues
    /\ geoResult = GeoPending

\* serialize_as_dict hands the attribute of a GeographyGeoJson column to
\* its bind processor; what the processor raises leaves serialize_as_dict.
GeoCall ==
    /\ geoResult = GeoPending
    /\ geoResult' = ConvertGeovalueToGeojsonStr(geoArgs)
    /\ UNCHANGED geoArgs
    /\ UNCHANGED <<facadeVars, queryVars, createVars, contextVars,
                   columnVars, exportVars, parseVars, serVars>>

(***************************************************************************)
(* Serialization: JsonSerializableOrmMixin.serialize_as_dict and           *)
(* get_entity_loaded_property_names_to_columns (serialization.py).         *)
(***************************************************************************)

\* The column properties of the entity's class, in mapper order.
PropertyOrder == <<"intr_def_lab", "geojson">>

DeclaredProperties == {PropertyOrder[i] : i \in 1..Len(PropertyOrder)}

\* column.key: the field name on the wire, given as the first argument of
\* Column or else the property name.
ColumnKey(property_name) ==
    IF property_name = "intr_def_lab" THEN "intr_def_label" ELSE property_name

\* column.default: none, a scalar, a callable, or an SQL expression.
DefaultKinds == {"none", "scalar", "callable", "clause"}

\* A declared property: the kind of its column's default, whether the column
\* type has a bind processor, and whether it maps more than one column.
ColumnSpecs ==
    [default : DefaultKinds, hasBind : BOOLEAN, composite : BOOLEAN]

\* Attribute values: None, a falsy value and a truthy one.
AttributeValues == {PyNoneValue, PyValue("int", 0), PyValue("int", 7)}

\* What the defaults of the explored columns produce.
ScalarDefault == PyValue("int", 5)
CallableDefault == PyValue("int", 9)

\* The entities given to serialize_as_dict.  A transient entity (never
\* loaded from a query) has no unloaded attribute; `unloaded` is ins.unloaded
\* less the expired attributes.  Only the second property may be composite.
Entities ==
    {e \in [columns : [DeclaredProperties -> ColumnSpecs],
            values : [DeclaredProperties -> AttributeValues],
            transient : BOOLEAN,
            unloaded : SUBSET DeclaredProperties,
            excluded_keys : SUBSET DeclaredProperties,
            inContext : BOOLEAN] :
        /\ e.transient => e.unloaded = {}
        /\ ~e.columns["intr_def_lab"].composite}

\* get_entity_loaded_property_names_to_columns that never drops a property.
LoadedPropertyNamesAll(e) == PropertyOrder

\* get_entity_loaded_property_names_to_columns(entity): for an entity that
\* is not transient the unloaded properties are dropped.
LoadedPropertyNames(e) ==
    IF ~e.transient
    THEN SelectSeq(PropertyOrder, LAMBDA p : p \notin e.unloaded)
    ELSE PropertyOrder

\* The default taken whenever the attribute is falsy.
MaterializeDefaultFalsy(column, value) ==
    IF ~PyTruthy(value)
    THEN IF column.default = "callable" THEN CallableDefault
         ELSE IF column.default = "scalar" THEN ScalarDefault
         ELSE value
    ELSE value

\* if value is None: a callable default is called, a scalar default is
\* taken; a default of another kind leaves None.
MaterializeDefault(column, value) ==
    IF ~IsNotNone(value)
    THEN IF column.default = "callable" THEN CallableDefault
         ELSE IF column.default = "scalar" THEN ScalarDefault
         ELSE value
    ELSE value

\* bind_processor(value): the value in the form sent to the warehouse.
BindProcessor(value) == PyValue("bound", value.n)

\* if value is not None: the session's dialect is looked up, and the bind
\* processor of the column type, when it has one, is applied.
BindValue(e, column, value) ==
    IF ~IsNotNone(value)
    THEN [kind |-> "value", value |-> value]
    ELSE IF ~e.inContext
    THEN [kind |-> "DatabaseContextError", value |-> PyNoneValue]
    ELSE [kind |-> "value",
          value |-> IF column.hasBind THEN BindProcessor(value) ELSE value]

\* json_out[key] = value
DictSet(d, key, value) ==
    [k \in DOMAIN d \cup {key} |-> IF k = key THEN value ELSE d[k]]

EmptySerialized == [k \in {} |-> PyNoneValue]

\* The loop of serialize_as_dict over the properties names[i..], with
\* json_out built so far.
RECURSIVE SerializeFrom(_, _, _, _)
SerializeFrom(e, names, i, json_out) ==
    IF i > Len(names) THEN [kind |-> "dict", items |-> json_out]
    ELSE LET property_name == names[i]
             column == e.columns[property_name]
             bound == BindValue(e, column,
                          MaterializeDefault(column, e.values[property_name]))
         IN IF property_name \in e.excluded_keys
            THEN SerializeFrom(e, names, i + 1, json_out)
            ELSE IF column.composite
            THEN [kind |-> "ValueError", items |-> EmptySerialized]
            ELSE IF bound.kind # "value"
            THEN [kind |-> bound.kind, items |-> EmptySerialized]
            ELSE SerializeFrom(e, names, i + 1,
                     DictSet(json_out, ColumnKey(property_name), bound.value))

\* entity.serialize_as_dict(excluded_keys)
SerializeEntityAsDict(e) ==
    SerializeFrom(e, LoadedPropertyNames(e), 1, EmptySerialized)

SerPending == [kind |-> "pending", items |-> EmptySerialized]

SerInit ==
    /\ serArgs \in Entities
    /\ serResult = SerPending

SerializeCall ==
    /\ serResult = SerPending
    /\ serResult' = SerializeEntityAsDict(serArgs)
    /\ UNCHANGED serArgs
    /\ UNCHANGED <<facadeVars, queryVars, createVars, contextVars,
                   columnVars, exportVars, parseVars, geoVars>>

(***************************************************************************)
(* Specifications.                                                         *)
(***************************************************************************)

Unused == [kind |-> "unused"]

GeoIdle ==
    /\ geoArgs = Unused
    /\ geoResult = Unused

SerIdle ==
    /\ serArgs = Unused
    /\ serResult = Unused

PureIdle ==
    /\ colArgs = Unused
    /\ colResult = Unused
    /\ exportArgs = Unused
    /\ exportResult = Unused
    /\ parseArgs = Unused
    /\ parseResult = Unused
    /\ GeoIdle
    /\ SerIdle

QueryUnused ==
    /\ matching = <<>>
    /\ yieldPer = 0
    /\ QueryIdle

InitFacade == FacadeInit /\ QueryUnused /\ CreateIdle /\ ContextIdle /\ PureIdle

NextFacade ==
    \/ \E name \in AttrNames : GetAttr(name)
    \/ CallWrapped

SpecFacade == InitFacade /\ [][NextFacade]_vars

InitQuery == FacadeInit /\ QueryInit /\ CreateIdle /\ ContextIdle /\ PureIdle

NextQuery ==
    \/ CallAll
    \/ \E mode \in FailModes : UserNext(mode)
    \/ UserDrop
    \/ \E mode \in FailModes : CallFirst(mode)
    \/ \E mode \in FailModes, at \in 1..(MaxRows + 1) : CallOneOrNone(mode, at)
    \/ \E mode \in FailModes, at \in 1..(MaxRows + 1) : CallOne(mode, at)
    \/ CallModelQueryRaw

SpecQuery == InitQuery /\ [][NextQuery]_vars

InitCreate ==
    /\ FacadeInit
    /\ QueryUnused
    /\ CreateInit
    /\ (ContextIdle \/ ContextEntered)
    /\ PureIdle

NextCreate ==
    \/ /\ NoCallYet
       /\ \E insts \in SeqsUpTo(InstanceSet, MaxInstances), b \in BatchSizes :
             CreateCall(insts, b)
    \/ \E outcome \in InsertOutcomes : CreateStreaming(outcome)
    \/ AlterTable
    \/ /\ NoCallYet
       /\ \E insts \in SeqsUpTo(InstanceSet, MaxInstances), job \in JobOutcomes :
             CreateLoadJob(insts, job)
    \/ /\ NoCallYet
       /\ \E create_method \in CreateMethods,
             insts \in SeqsUpTo(InstanceSet, MaxInstances),
             b \in BatchSizes, job \in JobOutcomes :
             CreateHelper(create_method, insts, b, job)
    \/ \E frame \in PandasFrames, if_exists \in IfExists :
          ParseFromPandas(frame, if_exists)
    \/ \E args \in GeojsonCallInputs : ParseGeojson(args)
    \/ \E create_method \in CreateMethods, b \in BatchSizes, job \in JobOutcomes :
          IngestParsed(create_method, b, job)

SpecCreate == InitCreate /\ [][NextCreate]_vars

InitParse ==
    /\ FacadeInit
    /\ QueryUnused
    /\ CreateIdle
    /\ ContextIdle
    /\ colArgs = Unused
    /\ colResult = Unused
    /\ exportArgs = Unused
    /\ exportResult = Unused
    /\ ParseInit
    /\ GeoIdle
    /\ SerIdle

NextParse == ParseCall

SpecParse == InitParse /\ [][NextParse]_vars

InitContext ==
    /\ FacadeInit
    /\ QueryUnused
    /\ CreateIdle
    /\ ContextIdle
    /\ PureIdle

NextContext ==
    \/ \E t \in Threads, key \in EngineKeys : Enter(t, key)
    \/ \E t \in Threads, exc \in BOOLEAN, rollbackRaises \in BOOLEAN :
          Exit(t, exc, rollbackRaises)
    \/ \E t \in Threads : GetSession(t)
    \/ \E t \in Threads : GetEngine(t)

SpecContext == InitContext /\ [][NextContext]_vars

InitColumn ==
    /\ FacadeInit
    /\ QueryUnused
    /\ CreateIdle
    /\ ContextIdle
    /\ ColumnInit
    /\ exportArgs = Unused
    /\ exportResult = Unused
    /\ parseArgs = Unused
    /\ parseResult = Unused
    /\ GeoIdle
    /\ SerIdle

NextColumn == ColumnCall

SpecColumn == InitColumn /\ [][NextColumn]_vars

InitExport ==
    /\ FacadeInit
    /\ QueryUnused
    /\ CreateIdle
    /\ ContextIdle
    /\ colArgs = Unused
    /\ colResult = Unused
    /\ ExportInit
    /\ parseArgs = Unused
    /\ parseResult = Unused
    /\ GeoIdle
    /\ SerIdle

NextExport == ExportCall

SpecExport == InitExport /\ [][NextExport]_vars

InitGeo ==
    /\ FacadeInit
    /\ QueryUnused
    /\ CreateIdle
    /\ ContextIdle
    /\ colArgs = Unused
    /\ colResult = Unused
    /\ exportArgs = Unused
    /\ exportResult = Unused
    /\ parseArgs = Unused
    /\ parseResult = Unused
    /\ GeoInit
    /\ SerIdle

NextGeo == GeoCall

SpecGeo == InitGeo /\ [][NextGeo]_vars

InitSerialize ==
    /\ FacadeInit
    /\ QueryUnused
    /\ CreateIdle
    /\ ContextIdle
    /\ colArgs = Unused
    /\ colResult = Unused
    /\ exportArgs = Unused
    /\ exportResult = Unused
    /\ parseArgs = Unused
    /\ parseResult = Unused
    /\ GeoIdle
    /\ SerInit

NextSerialize == SerializeCall

SpecSerialize == InitSerialize /\ [][NextSerialize]_vars

(***************************************************************************)
(* Properties of the facade (SpecFacade).                                  *)
(***************************************************************************)

\* C1: for every name of the unsupported set, attribute access on the facade
\* raises BigQueryOrmError, and the wrapped query object has not been
\* accessed when the error is raised.
UnsupportedRaisesUntouched ==
    attr.name \in {"from_statement", "get", "merge_result", "populate_existing",
                   "values", "value", "with_parent", "with_session"}
        => attr.kind = "BigQueryOrmError" /\ touched = <<>>

\* The safe-passthrough set as the claim C2 lists it.
ClaimedSafeNames ==
    {"count", "delete", "exists", "label", "subquery", "statement", "cte",
     "column_descriptions", "execution_options", "selectable", "as_scalar"}

\* C2 as stated: every name of the listed safe-passthrough set (with
\* execution_options) resolves to the wrapped query's own attribute, unwrapped.
ClaimedSafeReturnedUnwrapped ==
    attr.name \in ClaimedSafeNames
        => /\ attr.kind = "native"
           /\ attr.value = [owner |-> facade.query, name |-> attr.name]

\* C2, amended: every name of the safe-passthrough set, which holds
\* get_execution_options and not execution_options, resolves to the wrapped
\* query's own attribute, not wrapped in a facade; execution_options resolves
\* to a wrapping callable like any other builder method.
SafeReturnedUnwrapped ==
    /\ attr.name \in {"count", "delete", "exists", "label", "subquery",
                      "statement", "cte", "column_descriptions",
                      "get_execution_options", "selectable", "as_scalar"}
          => /\ attr.kind = "native"
             /\ attr.value = [owner |-> facade.query, name |-> attr.name]
    /\ attr.name = "execution_options" => attr.kind = "wrapper"

SafeReturnedUnwrappedWitness ==
    /\ attr.name = "get_execution_options"
    /\ attr.kind = "native"
    /\ chain = <<"filter">>

\* The query the underlying builder produces for a chain of calls.
RECURSIVE BuilderResult(_)
BuilderResult(names) ==
    IF names = <<>> THEN <<>>
    ELSE Append(BuilderResult(SubSeq(names, 1, Len(names) - 1)), names[Len(names)])

\* C3: a name that is no facade method, in neither set, and an attribute of
\* the wrapped query resolves to a callable bound to the wrapped query's
\* attribute of that name; calling it gives a facade again, and after any
\* chain of such calls the facade wraps the query the builder produced for
\* that chain.
ChainedCallsComposeFacades ==
    /\ facade.isFacade
    /\ facade.query = BuilderResult(chain)
    /\ attr.name \in {"filter", "order_by", "limit", "execution_options"}
          => /\ attr.kind = "wrapper"
             /\ attr.value = [owner |-> facade.query, name |-> attr.name]

ChainedCallsWitness ==
    /\ chain = <<"filter", "order_by">>
    /\ facade.isFacade
    /\ facade.query = <<"filter", "order_by">>

(***************************************************************************)
(* Properties of query execution (SpecQuery).                              *)
(***************************************************************************)

\* C4: all() never removes duplicates: the results yielded are, one per row
\* and in cursor order, the rows the cursor returned; when all() has been
\* consumed fully there are as many results as rows, identical rows and
\* rows that share a primary key included.
AllKeepsDuplicates ==
    op = "all" =>
        /\ cursorAll = matching
        /\ Len(yielded) <= Len(cursorAll)
        /\ \A i \in 1..Len(yielded) :
              /\ yielded[i].id = cursorAll[i][1]
              /\ yielded[i].column1 = cursorAll[i][2]
        /\ genState = "exhausted" => Len(yielded) = Len(cursorAll)

AllKeepsDuplicatesWitness ==
    /\ op = "all"
    /\ genState = "exhausted"
    /\ Len(yielded) = 3
    /\ yielded[1] = yielded[2]
    /\ yielded[3].id = yielded[1].id
    /\ yielded[3] # yielded[1]

\* C5: the cursor handed to instances is always closed: once the generator
\* is over (exhausted, failed, closed or discarded by its consumer) the
\* cursor has been closed, and no fetch is made on a closed cursor.
CursorAlwaysClosed ==
    /\ genState \in {"exhausted", "raised", "closed", "closed_unstarted"}
          => cursorClosed
    /\ \A i \in 1..Len(fetchLog) : ~fetchLog[i].closed

\* C6: first() executes the query limited to 1 row and returns the first row
\* produced, or None when the query produces no row; it never raises a
\* cardinality error, however many rows match.
FirstReturnsFirstOrNone ==
    op = "first" =>
        /\ limitUsed = 1
        /\ result.error \notin {"MultipleResultsFound", "NoResultFound"}
        /\ genState # "raised" =>
              IF matching = <<>>
              THEN result.kind = "none"
              ELSE /\ result.kind = "value"
                   /\ result.value = [id |-> matching[1][1], column1 |-> matching[1][2]]

FirstWitness ==
    /\ op = "first"
    /\ Len(matching) = 3
    /\ result.kind = "value"
    /\ cursorClosed

\* C7: one_or_none() executes the query limited to 2 rows; it raises
\* MultipleResultsFound when 2 rows are returned, returns the single row
\* when exactly 1 is returned, and None when 0 are returned.
OneOrNoneCardinality ==
    op = "one_or_none" =>
        /\ limitUsed = 2
        /\ Len(cursorAll) = Min(2, Len(matching))
        /\ genState # "raised" =>
              /\ Len(cursorAll) = 2 =>
                    result.kind = "raise" /\ result.error = "MultipleResultsFound"
              /\ Len(cursorAll) = 1 =>
                    /\ result.kind = "value"
                    /\ result.value = [id |-> matching[1][1], column1 |-> matching[1][2]]
              /\ Len(cursorAll) = 0 => result.kind = "none"

OneOrNoneWitness ==
    /\ op = "one_or_none"
    /\ Len(matching) = 3
    /\ genState = "exhausted"
    /\ result.error = "MultipleResultsFound"

\* C8: one() returns the row exactly when the query matches exactly one row;
\* it raises NoResultFound when the query matches no row and
\* MultipleResultsFound when it matches more than one.
OneCardinality ==
    (op = "one" /\ genState # "raised") =>
        /\ Len(matching) = 1 =>
              /\ result.kind = "value"
              /\ result.value = [id |-> matching[1][1], column1 |-> matching[1][2]]
        /\ Len(matching) = 0 =>
              result.kind = "raise" /\ result.error = "NoResultFound"
        /\ Len(matching) > 1 =>
              result.kind = "raise" /\ result.error = "MultipleResultsFound"

OneWitness ==
    /\ op = "one"
    /\ genState = "exhausted"
    /\ Len(matching) = 0
    /\ result.error = "NoResultFound"

\* C23 as stated: BigQueryModel.query_raw executes the raw statement and
\* returns an iterable over its results as entities: the call returns a
\* generator over a cursor holding the rows the statement matches.
ModelQueryRawReturnsEntities ==
    op = "model_query_raw" =>
        /\ result.kind = "generator"
        /\ genState = "created"
        /\ cursorAll = matching

\* The number of pages of size `size` that n rows fill.
Pages(n, size) == (n + size - 1) \div size

\* The cursor rows fetched so far.
Fetched == Take(cursorAll, Len(cursorAll) - Len(cursorRows))

\* What the fetches made so far and the rows yielded so far look like.
PagingState ==
    /\ yieldPer > 0 =>
        /\ \A i \in 1..Len(fetchLog) :
            fetchLog[i].call = "fetchmany" /\ fetchLog[i].size = yieldPer
        /\ Len(fetchLog) <= Pages(Len(cursorAll), yieldPer) + 1
        /\ genState = "exhausted" =>
            Len(fetchLog) = Pages(Len(cursorAll), yieldPer) + 1
    /\ yieldPer = 0 =>
        /\ \A i \in 1..Len(fetchLog) : fetchLog[i].call = "fetchall"
        /\ Len(fetchLog) <= 1
        /\ genState = "exhausted" => Len(fetchLog) = 1
    /\ yielded = ProcessRows(Take(cursorAll, Len(yielded)))
    /\ genState = "suspended" => yielded \o page = ProcessRows(Fetched)
    /\ genState = "exhausted" => yielded = ProcessRows(cursorAll)

\* A step of the caller of all() that fetches finds every row of the
\* earlier pages yielded.
FetchAfterYield ==
    op = "all" /\ Len(fetchLog') > Len(fetchLog) =>
        /\ page = <<>>
        /\ yielded = ProcessRows(Fetched)
        /\ Len(fetchLog') = Len(fetchLog) + 1

\* C25: with a page-size hint the cursor is read with fetchmany(hint) only,
\* and reading stops at the first fetch that returns no rows; without a hint
\* exactly one fetchall is made; the rows yielded are the pages fetched, in
\* fetch order, and the rows of a page are all yielded before the next page
\* is fetched.
ResultPaging == []PagingState /\ [][FetchAfterYield]_vars

\* Three rows read to the end in pages of two: two pages and an empty fetch.
ResultPagingWitness ==
    /\ op = "all"
    /\ yieldPer = 2
    /\ Len(cursorAll) = 3
    /\ genState = "exhausted"
    /\ Len(fetchLog) = 3
    /\ Len(yielded) = 3

(***************************************************************************)
(* Properties of streaming ingestion (SpecCreate).                         *)
(***************************************************************************)

CeilDiv(n, b) == (n + b - 1) \div b

RECURSIVE TotalRows(_)
TotalRows(calls) ==
    IF calls = <<>> THEN 0 ELSE Len(Head(calls)) + TotalRows(Tail(calls))

\* C9: in a call of create, with batch_size = b >= 1 the insert calls made so far are the first
\* consecutive slices of at most b instances, in order; when create returns
\* there are ceil(n/b) calls and n rows in all.  With batch_size unset a
\* create that returns has made exactly one insert call with all n rows.
StreamingBatches ==
    LET n == Len(instances)
        b == batchSize.value
    IN /\ (entry = "create" /\ ~batchSize.isNone /\ b >= 1) =>
            /\ Len(insertCalls) <= CeilDiv(n, b)
            /\ \A k \in 1..Len(insertCalls) :
                  /\ Len(insertCalls[k]) = Min(b, n - (k - 1) * b)
                  /\ \A j \in 1..Len(insertCalls[k]) :
                        insertCalls[k][j]["id"] = instances[(k - 1) * b + j].id
            /\ createPc = "returned" =>
                  /\ Len(insertCalls) = CeilDiv(n, b)
                  /\ TotalRows(insertCalls) = n
       /\ (entry = "create" /\ batchSize.isNone /\ createPc = "returned") =>
            /\ Len(insertCalls) = 1
            /\ Len(insertCalls[1]) = n
            /\ \A j \in 1..n : insertCalls[1][j]["id"] = instances[j].id

StreamingBatchesWitness ==
    /\ createPc = "returned"
    /\ batchSize = [isNone |-> FALSE, value |-> 2]
    /\ Len(instances) = 3
    /\ instances[1] = instances[3]
    /\ Len(insertCalls) = 2
    /\ Len(insertCalls[2]) = 1

\* C10 as stated: create with batch_size < 1 raises ValueError before any
\* warehouse call (no schema lookup, no row insertion).
BatchSizeBelowOneRaisesValueError ==
    (createPc # "idle" /\ ~batchSize.isNone /\ batchSize.value < 1) =>
        /\ createPc = "raised"
        /\ createErr = "ValueError"
        /\ insertCalls = <<>>
        /\ schemaLookups = <<>>

\* C10, amended: create with batch_size < 1 fails before any warehouse call
\* (no schema lookup, no row insertion): with ValueError when every instance
\* is of the model class, and with BigQueryOrmError, raised by the class
\* check that comes first, when some instance is not.
BatchSizeBelowOneFailsFast ==
    (createPc # "idle" /\ ~batchSize.isNone /\ batchSize.value < 1) =>
        /\ createPc = "raised"
        /\ insertCalls = <<>>
        /\ schemaLookups = <<>>
        /\ createErr = IF \A i \in 1..Len(instances) : instances[i].cls = "Model"
                       THEN "ValueError" ELSE "BigQueryOrmError"

BatchSizeBelowOneWitness ==
    /\ createPc = "raised"
    /\ batchSize = [isNone |-> FALSE, value |-> 0]
    /\ Len(instances) = 2
    /\ createErr = "ValueError"

(***************************************************************************)
(* Properties of the ingestion failures (SpecCreate).                      *)
(***************************************************************************)

\* The k-th batch of a call of create.
BatchOf(k) ==
    IF batchSize.isNone THEN instances
    ELSE SubSeq(instances, (k - 1) * batchSize.value + 1,
                Min(k * batchSize.value, Len(instances)))

\* The number of batches of a call of create.
NumBatches ==
    IF batchSize.isNone THEN 1 ELSE CeilDiv(Len(instances), batchSize.value)

InsertedClean == [raises |-> FALSE, errors |-> <<>>]

\* C11: in a call of create, an insertion call that returns a non-empty
\* error list is the last one made and create raises DatabaseError carrying
\* that list; the k-th insertion call is the one for the k-th batch, so no
\* batch is submitted twice; and create returns only when every insertion
\* call returned an empty error list.
InsertErrorsRaise ==
    (entry = "create" /\ createPc \in {"loop", "raised", "returned"}) =>
        /\ Len(insertResults) = Len(insertCalls)
        /\ \A k \in 1..Len(insertResults) :
              (~insertResults[k].raises /\ Len(insertResults[k].errors) > 0) =>
                  /\ k = Len(insertResults)
                  /\ createPc = "raised"
                  /\ createErr = "DatabaseError"
                  /\ createErrArg.errors = ListOf(insertResults[k].errors)
        /\ Len(insertCalls) > 0 => Len(insertCalls) <= NumBatches
        /\ \A k \in 1..Len(insertCalls) : 
              insertCalls[k] = StreamingRows(BatchOf(k), schemaLookups[k].schema)
        /\ createPc = "returned" =>
              \A k \in 1..Len(insertResults) : insertResults[k] = InsertedClean

InsertErrorsRaiseWitness ==
    /\ entry = "create"
    /\ createPc = "raised"
    /\ createErr = "DatabaseError"
    /\ Len(insertCalls) = 2
    /\ insertResults[1] = InsertedClean
    /\ createErrArg.errors = ListOf(<<"e1">>)
    /\ NumBatches = 3

\* None, or a list or dict with nothing in it.
Empty(x) == x.isNone \/ x.items = <<>>

\* C12: a call of create_load_job that gets as far as submitting submits one
\* job; it returns exactly when waiting on the job raised nothing and the
\* job's error result and error list are both empty.  When waiting raises,
\* DatabaseError is raised carrying the exception text, the job's errors and
\* its error result; when waiting succeeds but the error result or the
\* error list is non-empty, DatabaseError is raised as well.
LoadJobOutcome ==
    (entry = "create_load_job" /\ createPc \in {"raised", "returned"}) =>
        /\ Len(loadJobs) <= 1
        /\ createPc = "returned" => Len(loadJobs) = 1
        /\ Len(loadJobs) = 1 =>
              /\ createPc = "returned" <=>
                    /\ ~jobOutcome.waitRaises
                    /\ Empty(jobOutcome.errorResult)
                    /\ Empty(jobOutcome.errors)
              /\ createPc = "raised" => createErr = "DatabaseError"
              /\ jobOutcome.waitRaises =>
                    createErrArg = [errors |-> jobOutcome.errors,
                                    exc |-> "Exception",
                                    errorResult |-> jobOutcome.errorResult]

LoadJobOutcomeWitness ==
    /\ entry = "create_load_job"
    /\ createPc = "raised"
    /\ Len(loadJobs) = 1
    /\ Len(loadJobs[1]) = 2
    /\ jobOutcome.waitRaises
    /\ createErrArg.exc = "Exception"
    /\ createErrArg.errors = ListOf(<<"e1">>)
    /\ createErrArg.errorResult = ListOf(<<"notFound">>)

\* No row of the table arrived by either ingestion strategy.
NothingIngested ==
    \A i \in 1..Len(tableRows) : tableRows[i].via = "existing"

\* C13: _create_helper with 'streaming' runs create on the given instances
\* with the given batch_size, with 'load_job' it runs create_load_job on the
\* given instances, and with any other strategy name it raises ValueError
\* having called neither: no insertion call, no load job, no row ingested.
HelperDispatch ==
    helper.create_method # None =>
        /\ helper.create_method = "streaming" =>
              /\ entry = "create"
              /\ instances = helper.instances
              /\ batchSize = helper.batch_size
              /\ loadJobs = <<>>
        /\ helper.create_method = "load_job" =>
              /\ entry = "create_load_job"
              /\ instances = helper.instances
              /\ insertCalls = <<>>
        /\ helper.create_method \notin {"streaming", "load_job"} =>
              /\ createPc = "raised"
              /\ createErr = "ValueError"
              /\ entry \notin {"create", "create_load_job"}
              /\ insertCalls = <<>>
              /\ loadJobs = <<>>
              /\ NothingIngested

HelperDispatchWitness ==
    /\ helper.create_method = "upsert"
    /\ Len(helper.instances) = 2
    /\ createPc = "raised"
    /\ createErr = "ValueError"

\* The table is as the run found it: absent, or holding the rows it had.
WarehouseAsFound == tableRows = IF tableExists THEN ExistingRows ELSE <<>>

ParseEntries == {"parse_from_pandas", "parse_from_geojson"}

\* C14 as stated: a parse adapter only parses: it returns instances in every
\* execution, submits nothing (no insertion call, no load job) and leaves
\* the warehouse as it found it.
ParseOnlyParses ==
    (entry \in ParseEntries /\ createPc \in {"parsed", "parse_raised"}) =>
        /\ createPc = "parsed"
        /\ insertCalls = <<>>
        /\ loadJobs = <<>>
        /\ WarehouseAsFound

\* C14, amended: a parse adapter submits no row: after it returned or raised
\* there is no insertion call, no load job and no row in the table that was
\* not there before; parse_from_geojson leaves the warehouse as it found it,
\* and so does a parse_from_pandas that raises.  Rows are in the table only
\* by a call of create (streaming) or create_load_job.
ParseSubmitsNoRow ==
    /\ (entry \in ParseEntries /\ createPc \in {"parsed", "parse_raised"}) =>
          /\ insertCalls = <<>>
          /\ loadJobs = <<>>
          /\ NothingIngested
          /\ (entry = "parse_from_geojson" \/ createPc = "parse_raised") =>
                WarehouseAsFound
          /\ createPc = "parse_raised" => parsed = <<>>
    /\ \A i \in 1..Len(tableRows) :
          /\ tableRows[i].via \in {"existing", "streaming", "load_job"}
          /\ tableRows[i].via = "streaming" =>
                entry = "create" /\ Len(insertCalls) > 0
          /\ tableRows[i].via = "load_job" =>
                entry = "create_load_job" /\ Len(loadJobs) = 1

ParseSubmitsNoRowWitness ==
    /\ entry = "parse_from_pandas"
    /\ createPc = "parsed"
    /\ Len(parsed) = 2
    /\ tableExists
    /\ tableRows = <<>>
    /\ insertCalls = <<>>

\* C16: a call of create or create_load_job with instances of the model
\* class and a valid batch_size, made by a thread that is inside no
\* DatabaseContext, ends by raising DatabaseContextError with no warehouse
\* operation made (no schema lookup, no insertion call, no load job).
NoContextFailsFast ==
    (/\ entry \in {"create", "create_load_job"}
     /\ createPc \in {"raised", "returned"}
     /\ ~IsInContext(Caller)
     /\ AllOfClass(instances)
     /\ batchSize.isNone \/ batchSize.value >= 1) =>
        /\ createPc = "raised"
        /\ createErr = "DatabaseContextError"
        /\ schemaLookups = <<>>
        /\ insertCalls = <<>>
        /\ loadJobs = <<>>

(***************************************************************************)
(* Properties of the streamed rows and batches (SpecCreate).               *)
(***************************************************************************)

\* Every insertion call made so far followed a schema lookup of its own
\* that found the table; its rows are the whole batch, and each row has a
\* key for every field of the schema that lookup returned, holding the
\* serialized value where the instance has one and None otherwise.
FullWidthRows ==
    /\ Len(schemaLookups) >= Len(insertCalls)
    /\ Len(schemaLookups) <= Len(insertCalls) + 1
    /\ \A k \in 1..Len(insertCalls) :
        /\ schemaLookups[k].found
        /\ Len(insertCalls[k]) = Len(BatchOf(k))
        /\ \A j \in 1..Len(insertCalls[k]) :
            LET row == insertCalls[k][j]
                params == SerializeAsDict(BatchOf(k)[j])
            IN /\ schemaLookups[k].schema \subseteq DOMAIN row
               /\ \A f \in schemaLookups[k].schema :
                    row[f] = IF f \in DOMAIN params THEN params[f] ELSE None

\* A schema lookup returns the table as it is at that moment, and an
\* insertion call is made in the step of its lookup.
LiveSchemaLookup ==
    /\ Len(schemaLookups') > Len(schemaLookups) =>
        /\ Len(schemaLookups') = Len(schemaLookups) + 1
        /\ schemaLookups'[Len(schemaLookups')] =
             IF tableExists THEN TableFound(tableSchema) ELSE TableNotFound
    /\ Len(insertCalls') > Len(insertCalls) =>
        /\ Len(insertCalls') = Len(insertCalls) + 1
        /\ Len(schemaLookups') = Len(schemaLookups) + 1

\* C26: for each batch the table schema is fetched from the warehouse
\* again, every row submitted in the batch has a key for every field of that
\* schema (the serialized value where the instance supplies one, null
\* otherwise), and all the rows of the batch are submitted in one insertion
\* call.
StreamingFullWidth == []FullWidthRows /\ [][LiveSchemaLookup]_vars

\* A create in two batches during which the table got a field: the rows of
\* the second batch have the new field, those of the first do not.
StreamingFullWidthWitness ==
    /\ entry = "create"
    /\ createPc = "returned"
    /\ Len(insertCalls) = 2
    /\ schemaLookups[1].schema = SchemaFields
    /\ schemaLookups[2].schema = WidenedSchemaFields
    /\ "added_later" \notin DOMAIN insertCalls[1][1]
    /\ insertCalls[2][1]["added_later"] = None

\* The insertion call with result r failed.
InsertFailed(r) == r.raises \/ Len(r.errors) > 0

RECURSIVE Concat(_)
Concat(calls) ==
    IF calls = <<>> THEN <<>> ELSE Head(calls) \o Concat(Tail(calls))

\* A failed insertion call is the last one made and create has raised; the
\* rows of the calls before it, and no others, were streamed into the table.
PartialIngestion ==
    (entry = "create" /\ createPc \in {"loop", "raised", "returned"}) =>
        /\ \A k \in 1..Len(insertResults) :
            InsertFailed(insertResults[k]) =>
                /\ k = Len(insertResults)
                /\ createPc = "raised"
                /\ createErr = IF insertResults[k].raises
                               THEN "GoogleAPICallError" ELSE "DatabaseError"
        /\ LET done == {k \in 1..Len(insertResults) :
                            ~InsertFailed(insertResults[k])}
           IN SelectSeq(tableRows, LAMBDA r : r.via = "streaming") =
                RowsVia("streaming",
                        Concat(SubSeq(insertCalls, 1, Cardinality(done))))

\* Once create has raised, no further batch is submitted and the table
\* keeps the rows it has.
StoppedAfterFailure ==
    (entry = "create" /\ createPc = "raised") =>
        /\ insertCalls' = insertCalls
        /\ tableRows' = tableRows
        /\ createPc' = "raised"

\* C28: batched streaming is not atomic: when the insertion of batch k
\* fails, by returning errors or by raising, create raises at once; the rows
\* of batches 1..k-1 stay in the table, and batches k+1.. are never
\* submitted.
StreamingNotAtomic == []PartialIngestion /\ [][StoppedAfterFailure]_vars

\* Three batches of one instance: the first was ingested, the insertion of
\* the second raised, the third was never submitted.
StreamingNotAtomicWitness ==
    /\ entry = "create"
    /\ createPc = "raised"
    /\ createErr = "GoogleAPICallError"
    /\ NumBatches = 3
    /\ Len(insertCalls) = 2
    /\ tableRows = ExistingRows \o RowsVia("streaming", insertCalls[1])

\* The rows a load job added to the table.
LoadedRows == SelectSeq(tableRows, LAMBDA r : r.via = "load_job")

\* Some instance of the list is not of the model class.
ForeignInstance == \E i \in 1..Len(instances) : instances[i].cls # "Model"

\* C29: create_load_job checks the class of every instance and serializes
\* every instance before it submits anything: with an instance of another
\* class (BigQueryOrmError) or one whose serialization raises, no job is
\* submitted and the table gets no row; a call that submits, submits exactly
\* one job, whose file has one line per instance, in input order.
LoadJobAllOrNothing ==
    (entry = "create_load_job" /\ createPc # "idle") =>
        /\ ForeignInstance =>
            /\ createPc = "raised"
            /\ createErr = "BigQueryOrmError"
        /\ (ForeignInstance \/ SerializationRaises(instances)) =>
            /\ createPc = "raised"
            /\ loadJobs = <<>>
            /\ LoadedRows = <<>>
        /\ insertCalls = <<>>
        /\ Len(loadJobs) <= 1
        /\ \A k \in 1..Len(loadJobs) :
            /\ Len(loadJobs[k]) = Len(instances)
            /\ \A i \in 1..Len(instances) :
                loadJobs[k][i] = SerializeAsDict(instances[i])
        /\ createPc = "returned" =>
            /\ Len(loadJobs) = 1
            /\ LoadedRows = RowsVia("load_job", loadJobs[1])

\* Inside a context, a list of three instances of the class whose last one
\* cannot be serialized: ValueError, and nothing was submitted.
LoadJobAllOrNothingWitness ==
    /\ entry = "create_load_job"
    /\ createPc = "raised"
    /\ createErr = "ValueError"
    /\ IsInContext(Caller)
    /\ Len(instances) = 3
    /\ instances[1] # Unserializable
    /\ instances[2] # Unserializable
    /\ instances[3] = Unserializable
    /\ loadJobs = <<>>

(***************************************************************************)
(* Properties of the GeoJSON import (SpecParse).                           *)
(***************************************************************************)

\* What feature i itself supplies, by instance property name: its
\* properties without the ignored keys, renamed, and its geometry when it
\* has a 'geometry' entry.
Supplied(i) ==
    LET feature == parseArgs.features[i]
        properties == RelabelledProperties(feature.properties,
                                           parseArgs.relabel, parseArgs.ignore)
        name == parseArgs.geometry_property_name
    IN IF name # "" /\ feature.hasGeometry
       THEN Overlay(properties, [k \in {name} |-> feature.geometry])
       ELSE properties

\* The value of a property of a constructed instance; None when unset.
InstanceValue(inst, name) == IF name \in DOMAIN inst THEN inst[name] ELSE None

PropertyNames == {"intr", "name", "label", "geojson"}

\* C20: every property of every instance parse_from_geojson constructs has
\* the feature's own value when the feature supplies that name, otherwise
\* the value of the defaults map when it has that name, otherwise it is
\* unset.
ParsePrecedence ==
    parseResult.kind = "instances" =>
        \A i \in 1..Len(parseResult.value) : \A name \in PropertyNames :
            InstanceValue(parseResult.value[i], name) =
                IF name \in DOMAIN Supplied(i) THEN Supplied(i)[name]
                ELSE IF name \in DOMAIN parseArgs.defaults
                THEN parseArgs.defaults[name]
                ELSE None

(***************************************************************************)
(* Properties of the DatabaseContext (SpecContext).                        *)
(***************************************************************************)

\* Session i is on some thread's stack of active sessions.
OnSomeStack(i) ==
    \E t \in Threads : \E k \in 1..Len(sessions[t]) : sessions[t][k].session = i

\* C15: a session whose context was exited with an exception was rolled
\* back and then closed, in that order; one whose context was exited without
\* an exception was closed and not rolled back; either way it is no longer
\* among the active sessions.  A session whose context is still open has
\* had neither call.
SessionReleased ==
    \A i \in 1..Len(made) :
        /\ made[i].exit = "exception" => made[i].log = <<"rollback", "close">>
        /\ made[i].exit = "normal" => made[i].log = <<"close">>
        /\ made[i].exit # "open" => ~OnSomeStack(i)
        /\ made[i].exit = "open" => made[i].log = <<>> /\ OnSomeStack(i)

SessionReleasedWitness ==
    \E i, j, k \in 1..Len(made) :
        /\ made[i].exit = "exception"
        /\ made[i].log = <<"rollback", "close">>
        /\ made[j].exit = "normal"
        /\ made[j].log = <<"close">>
        /\ made[k].exit = "open"
        /\ made[k].owner = made[i].owner

\* Every active session of a thread was created by that thread, get_session
\* gave each thread a session it created, and it raised exactly when the
\* thread was inside no context.
OwnSessionsOnly ==
    \A t \in Threads :
        /\ \A k \in 1..Len(sessions[t]) : made[sessions[t][k].session].owner = t
        /\ Len(sessions[t]) = depth[t]
        /\ lastGet[t].kind = "session" =>
              /\ lastGet[t].depth > 0
              /\ made[lastGet[t].session].owner = t
        /\ lastGet[t].kind = "engine" => lastGet[t].depth > 0
        /\ lastGet[t].kind = "DatabaseContextError" => lastGet[t].depth = 0

\* A step changes the stack of active sessions of the acting thread only.
OwnStackOnly ==
    \A t \in Threads : sessions'[t] # sessions[t] => actor' = t

\* C17: under every interleaving of the two threads, a thread's stack of
\* active sessions is changed by that thread's own enter and exit only,
\* get_session returns a session the same thread created, and a thread
\* inside no context gets DatabaseContextError whatever the other thread
\* has entered.
SessionsPerThread == []OwnSessionsOnly /\ [][OwnStackOnly]_vars

SessionsPerThreadWitness ==
    /\ lastGet["t2"].kind = "DatabaseContextError"
    /\ Len(sessions["t1"]) = 2
    /\ lastGet["t1"].kind = "session"
    /\ lastGet["t1"].session = 2
    /\ Len(sessions["t2"]) = 0
    /\ actor = "t2"

\* The sessions on the stack of thread t, outermost first.
StackOf(t) == [k \in 1..Len(sessions[t]) |-> sessions[t][k].session]

\* The stack of every thread is as deep as the number of contexts the
\* thread entered and has not exited, and holds sessions of open contexts
\* in the order they were created, none of them twice.
StackShape ==
    \A t \in Threads :
        /\ Len(sessions[t]) = depth[t]
        /\ \A k \in 1..Len(sessions[t]) : made[StackOf(t)[k]].exit = "open"
        /\ \A j, k \in 1..Len(sessions[t]) : j < k => StackOf(t)[j] < StackOf(t)[k]

\* An enter pushes a session that did not exist before, an exit pops the
\* innermost session and leaves the enclosing ones as they were, and
\* get_session returns the innermost session.
StackStep ==
    \A t \in Threads :
        /\ depth'[t] = depth[t] + 1 =>
            /\ Len(made') = Len(made) + 1
            /\ StackOf(t)' = Append(StackOf(t), Len(made'))
        /\ depth'[t] = depth[t] - 1 =>
            StackOf(t)' = SubSeq(StackOf(t), 1, Len(StackOf(t)) - 1)
        /\ depth'[t] = depth[t] => StackOf(t)' = StackOf(t)
        /\ (lastGet'[t] # lastGet[t] /\ lastGet'[t].kind = "session") =>
            /\ depth[t] > 0
            /\ lastGet'[t].session = StackOf(t)[depth[t]]

\* C27: the active sessions of a thread form a LIFO stack: its depth is the
\* number of contexts entered and not yet exited, every enter creates a
\* session distinct from all earlier ones, get_session returns the session
\* of the innermost open context, and an exit gives the enclosing context's
\* session back.
SessionStackLifo == []StackShape /\ [][StackStep]_vars

\* Thread t1 entered two contexts, left the inner one, and get_session then
\* returned the session of the outer one.
SessionStackLifoWitness ==
    /\ Len(made) >= 2
    /\ made[1].owner = "t1"
    /\ made[2].owner = "t1"
    /\ made[1].exit = "open"
    /\ made[2].exit # "open"
    /\ lastGet["t1"].kind = "session"
    /\ lastGet["t1"].session = 1
    /\ lastGet["t1"].depth = 1
    /\ depth["t1"] = 1

\* C30: a session whose rollback raised during the exit of its context was
\* closed all the same and is on no stack; no exited context has left its
\* session unclosed or on a stack.
RollbackFailureReleases ==
    \A i \in 1..Len(made) :
        /\ made[i].rollbackRaised =>
            /\ made[i].exit = "exception"
            /\ made[i].log = <<"rollback", "close">>
            /\ ~OnSomeStack(i)
        /\ made[i].exit # "open" =>
            /\ made[i].log # <<>>
            /\ made[i].log[Len(made[i].log)] = "close"
            /\ ~OnSomeStack(i)

\* The rollback of an inner session raised: that session is closed, and the
\* session of the enclosing context of the same thread is still active.
RollbackFailureReleasesWitness ==
    \E i, j \in 1..Len(made) :
        /\ j < i
        /\ made[i].rollbackRaised
        /\ made[i].log = <<"rollback", "close">>
        /\ made[j].owner = made[i].owner
        /\ made[j].exit = "open"
        /\ OnSomeStack(j)

(***************************************************************************)
(* Properties of BigQueryColumn (SpecColumn).                              *)
(***************************************************************************)

\* C18: constructing a column with a default (any value other than None) on
\* a nullable column (nullable True or absent) fails, constructing one with
\* a server default fails, and so a column that was constructed and has a
\* default is not nullable and has no server default.
ColumnDefaultsOnlyRequired ==
    colResult.kind # "pending" =>
        /\ (IsNotNone(colArgs.default) /\ colArgs.nullable # "False") =>
              colResult.kind = "BigQueryOrmError"
        /\ IsNotNone(colArgs.server_default) =>
              colResult.kind = "BigQueryOrmError"
        /\ colResult.kind = "column" =>
              /\ IsNotNone(colResult.default) => ~colResult.nullable
              /\ ~IsNotNone(colResult.server_default)

(***************************************************************************)
(* Properties of the GeoJSON export (SpecExport).                          *)
(***************************************************************************)

\* Row i has no entry for the requested geometry column.
GeometryAbsent(i) == exportArgs.geometry_column \notin DOMAIN exportArgs.dicts[i]

\* Row i has a geometry text that is not JSON.
GeometryUnparsable(i) ==
    /\ ~GeometryAbsent(i)
    /\ exportArgs.dicts[i][exportArgs.geometry_column].type = "str"
    /\ JsonLoads(exportArgs.dicts[i][exportArgs.geometry_column]).failed

Flip(value, mask) ==
    [type |-> value.type,
     coordinates |-> [i \in 1..Len(value.coordinates) |->
                          IF i \in mask
                          THEN Reverse(value.coordinates[i])
                          ELSE value.coordinates[i]]]

\* C21: a valid polygon (exterior first) is serialized, and in the wire value
\* the exterior ring and every hole have a positive signed area
\* (counter-clockwise) whatever the direction each ring had in the input; so
\* the input with any of its rings reversed serializes to the same wire
\* value.
WindingNormalized ==
    /\ geoResult # GeoPending /\ IsValid(Shape(geoArgs)) => geoResult.kind = "str"
    /\ geoResult.kind = "str" =>
        /\ \A i \in 1..Len(geoResult.value.coordinates) :
            SignedArea2(geoResult.value.coordinates[i]) > 0
        /\ \A mask \in SUBSET (1..Len(geoArgs.coordinates)) :
            ConvertGeovalueToGeojsonStr(Flip(geoArgs, mask)) = geoResult

\* A polygon with a clockwise exterior, a counter-clockwise hole and a
\* clockwise hole has been serialized.
WindingNormalizedWitness ==
    /\ geoResult.kind = "str"
    /\ Len(geoArgs.coordinates) = 3
    /\ SignedArea2(geoArgs.coordinates[1]) < 0
    /\ SignedArea2(geoArgs.coordinates[2]) > 0
    /\ SignedArea2(geoArgs.coordinates[3]) < 0

\* The first ring of the polygon lies inside its second ring.
HoleFirst(value) ==
    /\ Len(value.coordinates) >= 2
    /\ RingInside(value.coordinates[1], value.coordinates[2])

\* The polygon with its first two rings exchanged.
SwapFirstTwo(value) ==
    [type |-> value.type,
     coordinates |-> [i \in 1..Len(value.coordinates) |->
                          IF i = 1 THEN value.coordinates[2]
                          ELSE IF i = 2 THEN value.coordinates[1]
                          ELSE value.coordinates[i]]]

\* C22: a polygon whose first ring lies inside its second ring (the hole is
\* listed before the exterior) is rejected with ValueError: no wire value is
\* produced, in particular not the one of the polygon with the two rings
\* exchanged.
HoleFirstRejected ==
    geoResult # GeoPending /\ HoleFirst(geoArgs) =>
        /\ geoResult.kind = "ValueError"
        /\ geoResult.value = NoGeometry
        /\ geoResult.value # ConvertGeovalueToGeojsonStr(SwapFirstTwo(geoArgs)).value
            \/ ~IsValid(Shape(SwapFirstTwo(geoArgs)))

\* A hole followed by its exterior has been rejected, although the same two
\* rings in the other order make a polygon that is serialized.
HoleFirstRejectedWitness ==
    /\ geoResult.kind = "ValueError"
    /\ HoleFirst(geoArgs)
    /\ Len(geoArgs.coordinates) = 2
    /\ ConvertGeovalueToGeojsonStr(SwapFirstTwo(geoArgs)).kind = "str"

(***************************************************************************)
(* Properties of serialize_as_dict (SpecSerialize).                        *)
(***************************************************************************)

\* The form an entry takes: the bind processor of the column, when it has
\* one, is applied to a value that is not None.
Encoded(column, value) ==
    IF IsNotNone(value) /\ column.hasBind THEN BindProcessor(value) ELSE value

\* C24 as stated: one entry, keyed by the wire name, for every declared
\* column whose property name is not excluded; an unset attribute takes the
\* column default whenever the column has one.
SerializedEveryColumn ==
    serResult # SerPending =>
        /\ serResult.kind = "dict"
        /\ DOMAIN serResult.items =
             {ColumnKey(p) : p \in DeclaredProperties \ serArgs.excluded_keys}
        /\ \A p \in DeclaredProperties \ serArgs.excluded_keys :
            LET column == serArgs.columns[p]
                item == serResult.items[ColumnKey(p)]
            IN /\ IsNotNone(serArgs.values[p]) =>
                    item = Encoded(column, serArgs.values[p])
               /\ ~IsNotNone(serArgs.values[p]) /\ column.default # "none" =>
                    IsNotNone(item)
               /\ ~IsNotNone(serArgs.values[p]) /\ column.default = "none" =>
                    item = PyNoneValue

\* The properties serialize_as_dict emits: declared, loaded on the entity
\* (all of them when the entity is transient) and not excluded.
Emitted(e) == (DeclaredProperties \ e.unloaded) \ e.excluded_keys

\* The call can go through: no emitted property is composite, and a session
\* is open whenever some emitted value is not None.
Serializable(e) ==
    /\ \A p \in Emitted(e) : ~e.columns[p].composite
    /\ e.inContext

\* C24 (amended): inside a DatabaseContext and with single-column
\* properties, serialize_as_dict emits exactly one entry, keyed by the wire
\* field name, for each declared column that is loaded on the entity and
\* whose property name is not excluded; the value is the attribute when it
\* is not None, otherwise the result of a callable default or a scalar
\* default as it is, otherwise (no default, or a default of another kind)
\* null; the bind encoder is applied to non-null values only.
SerializedLoadedColumns ==
    serResult # SerPending /\ Serializable(serArgs) =>
        /\ serResult.kind = "dict"
        /\ DOMAIN serResult.items = {ColumnKey(p) : p \in Emitted(serArgs)}
        /\ \A p \in Emitted(serArgs) :
            LET column == serArgs.columns[p]
                item == serResult.items[ColumnKey(p)]
            IN /\ IsNotNone(serArgs.values[p]) =>
                    item = Encoded(column, serArgs.values[p])
               /\ ~IsNotNone(serArgs.values[p]) /\ column.default = "callable" =>
                    item = Encoded(column, CallableDefault)
               /\ ~IsNotNone(serArgs.values[p]) /\ column.default = "scalar" =>
                    item = Encoded(column, ScalarDefault)
               /\ ~IsNotNone(serArgs.values[p])
                  /\ column.default \in {"none", "clause"} =>
                    item = PyNoneValue

\* An entity loaded from a query with nothing deferred or excluded was
\* serialized: one attribute is falsy but set and has a default and a bind
\* processor, the other is None and takes its callable default.
SerializedLoadedColumnsWitness ==
    /\ serResult.kind = "dict"
    /\ ~serArgs.transient
    /\ Emitted(serArgs) = DeclaredProperties
    /\ serArgs.values["intr_def_lab"] = PyValue("int", 0)
    /\ serArgs.columns["intr_def_lab"].default = "scalar"
    /\ serArgs.columns["intr_def_lab"].hasBind
    /\ serArgs.values["geojson"] = PyNoneValue
    /\ serArgs.columns["geojson"].default = "callable"

====
